---- MODULE Spec2Model ----
(***************************************************************************)
(* A model of the affiliate-funnel wizard: the canned generators of        *)
(* ai_engine.py, the funnel composer, flow-graph builder and exporter of   *)
(* funnel_generator.py, the email sequence generator of                    *)
(* email_generator.py and the wizard routes of app.py.                     *)
(*                                                                         *)
(* Python values are modelled as tagged records [t |-> type, v |-> value]  *)
(* so that the dynamic type tests the code depends on (a .get on a value   *)
(* that is not a dict, a str.join over items that are not str, a .lower()  *)
(* on None) can be decided by the model.                                   *)
(***************************************************************************)
EXTENDS Integers, Sequences, FiniteSets, TLC

\* ------------------------------------------------------------------------
\* Bounds of the model
\* ------------------------------------------------------------------------
MaxPosition == 5       \* largest offer position passed to generate_upsell
MaxOffers == 4         \* largest number of upsells / downsells of a funnel
MaxProjects == 1       \* largest project id the database hands out
MaxFormOffers == 2     \* largest num_upsells / num_downsells a wizard form submits
MaxServiceEmails == 2  \* most emails in an answer of the text-generation service
MaxBenefits == 6       \* most benefit strings of a main page handed to the email generator
MaxSessions == 2       \* most requests in flight at once on one project

VARIABLES
    projects,   \* the project table: project id -> row, PyNone where there is no row
    last,       \* the last request or call handled, with what it answered
    sessions,   \* the requests in flight: per request slot, the row it loaded
    visit       \* a visitor of an exported funnel: the flow, the pages seen, the clicks made
vars == <<projects, last, sessions, visit>>

\* ------------------------------------------------------------------------
\* Python values
\* ------------------------------------------------------------------------
PyNone == [t |-> "NoneType"]
PyStr(s) == [t |-> "str", v |-> s]
PyInt(n) == [t |-> "int", v |-> n]
PyList(s) == [t |-> "list", v |-> s]
PyDict(r) == [t |-> "dict", v |-> r]
PyEmptyDict == PyDict([k \in {} |-> PyNone])

\* d.get(key, default) on a dict d
dict_get(d, key, default) == IF key \in DOMAIN d.v THEN d.v[key] ELSE default

\* f"{x}" : str() of a value interpolated into an f-string
PyFormat(x) ==
    CASE x.t = "str" -> x.v
      [] x.t = "int" -> ToString(x.v)
      [] x.t = "NoneType" -> "None"

\* str.title() on the two offer kinds the fallback offer formats
title(s) ==
    CASE s = "upsell" -> "Upsell"
      [] s = "downsell" -> "Downsell"

\* ------------------------------------------------------------------------
\* ai_engine.generate_upsell
\* ------------------------------------------------------------------------
\* the if / elif / else on position: 1, 2, anything else
upsell_variant_mod3(position) == ((position - 1) % 3) + 1

upsell_variant(position) ==
    IF position = 1 THEN 1 ELSE IF position = 2 THEN 2 ELSE 3

\* the six hand-written offers, with brand_name and position interpolated
offer_template(upsell_type, variant, brand_name, position) ==
    IF upsell_type = "upsell" THEN
      CASE variant = 1 -> PyDict([
                offer_type |-> PyStr("upsell"),
                position |-> PyInt(position),
                product_name |-> PyStr(brand_name \o " Pro Edition"),
                headline |-> PyStr("WAIT! Upgrade to " \o brand_name \o " Pro for Maximum Results"),
                description |-> PyStr("The Pro Edition includes all features of the standard " \o brand_name \o " plus advanced capabilities for power users."),
                key_benefits |-> PyList(<<
                    PyStr("Access to premium training resources"),
                    PyStr("Direct 1-on-1 coaching sessions"),
                    PyStr("Priority support response"),
                    PyStr("Advanced customization options"),
                    PyStr("Exclusive community access")
                >>),
                main_feature |-> PyStr("Personalized implementation strategy call with a senior expert"),
                price |-> PyInt(297),
                price_description |-> PyStr("One-time upgrade payment (save 50% today only)"),
                reason_to_buy |-> PyStr("Triple your results with expert guidance and premium resources"),
                scarcity_element |-> PyStr("This special upgrade price expires in 15 minutes"),
                cta_text |-> PyStr("Yes, Upgrade My Order to Pro!")
            ])
        [] variant = 2 -> PyDict([
                offer_type |-> PyStr("upsell"),
                position |-> PyInt(position),
                product_name |-> PyStr(brand_name \o " Implementation Accelerator"),
                headline |-> PyStr("Get Results 3X Faster with the " \o brand_name \o " Implementation Accelerator"),
                description |-> PyStr("This done-for-you implementation package helps you fast-track your success by handling the technical setup and customization."),
                key_benefits |-> PyList(<<
                    PyStr("Complete system setup by our expert team"),
                    PyStr("Custom configuration for your specific needs"),
                    PyStr("Technical roadblocks removed before you start"),
                    PyStr("Ready-to-use templates and frameworks")
                >>),
                main_feature |-> PyStr("White-glove implementation service with 48-hour turnaround"),
                price |-> PyInt(397),
                price_description |-> PyStr("One-time service fee (50% less than our standard rate)"),
                reason_to_buy |-> PyStr("Skip the learning curve and get straight to results"),
                scarcity_element |-> PyStr("Limited to just 10 clients this month"),
                cta_text |-> PyStr("Yes, Fast-Track My Success!")
            ])
        [] OTHER -> PyDict([
                offer_type |-> PyStr("upsell"),
                position |-> PyInt(position),
                product_name |-> PyStr(brand_name \o " Enterprise Solution"),
                headline |-> PyStr("Scale Your Success with the " \o brand_name \o " Enterprise Package"),
                description |-> PyStr("The complete " \o brand_name \o " system plus team licenses, advanced integrations, and enterprise-grade support."),
                key_benefits |-> PyList(<<
                    PyStr("Multiple user licenses for your entire team"),
                    PyStr("Advanced API integrations with your existing tools"),
                    PyStr("Custom reporting and analytics"),
                    PyStr("Quarterly strategy consultations")
                >>),
                main_feature |-> PyStr("Unlimited team access with centralized management console"),
                price |-> PyInt(997),
                price_description |-> PyStr("Annual subscription (less than $3 per day)"),
                reason_to_buy |-> PyStr("Scale the system across your entire organization"),
                scarcity_element |-> PyStr("Early adopter pricing - will increase by 40% next month"),
                cta_text |-> PyStr("Upgrade to Enterprise")
            ])
    ELSE
      CASE variant = 1 -> PyDict([
                offer_type |-> PyStr("downsell"),
                position |-> PyInt(position),
                product_name |-> PyStr(brand_name \o " Essentials"),
                headline |-> PyStr("Get Started with " \o brand_name \o " Essentials for a Lower Investment"),
                description |-> PyStr("The core features of " \o brand_name \o " at a more accessible price point."),
                key_benefits |-> PyList(<<
                    PyStr("Core system fundamentals"),
                    PyStr("Step-by-step implementation guides"),
                    PyStr("Community support access"),
                    PyStr("Key resources library")
                >>),
                main_feature |-> PyStr("Complete foundations course for beginners"),
                price |-> PyInt(197),
                price_description |-> PyStr("One-time payment with option to upgrade later"),
                reason_to_buy |-> PyStr("Get started with the essential features at a lower investment"),
                scarcity_element |-> PyStr("Special introductory pricing for first-time customers only"),
                cta_text |-> PyStr("Yes, I Want the Essentials Package!")
            ])
        [] variant = 2 -> PyDict([
                offer_type |-> PyStr("downsell"),
                position |-> PyInt(position),
                product_name |-> PyStr(brand_name \o " Self-Study Edition"),
                headline |-> PyStr("Access the " \o brand_name \o " System at Your Own Pace"),
                description |-> PyStr("The self-study version gives you all the content without the premium support elements."),
                key_benefits |-> PyList(<<
                    PyStr("Complete system access"),
                    PyStr("Digital resource library"),
                    PyStr("Self-paced learning modules"),
                    PyStr("Email support")
                >>),
                main_feature |-> PyStr("Digital-only access to the entire system"),
                price |-> PyInt(147),
                price_description |-> PyStr("One-time payment (60% off the full system)"),
                reason_to_buy |-> PyStr("Get all the content at a reduced price if you are self-motivated"),
                scarcity_element |-> PyStr("This special self-study offer expires in 24 hours"),
                cta_text |-> PyStr("Yes, Give Me Self-Study Access")
            ])
        [] OTHER -> PyDict([
                offer_type |-> PyStr("downsell"),
                position |-> PyInt(position),
                product_name |-> PyStr(brand_name \o " Starter Kit"),
                headline |-> PyStr("Try the " \o brand_name \o " Starter Kit Risk-Free"),
                description |-> PyStr("A simplified version to help you get started and experience initial results."),
                key_benefits |-> PyList(<<
                    PyStr("Core strategies and techniques"),
                    PyStr("Quick-start implementation guide"),
                    PyStr("Basic support access"),
                    PyStr("Foundational templates")
                >>),
                main_feature |-> PyStr("90-day quick-start roadmap"),
                price |-> PyInt(97),
                price_description |-> PyStr("One-time payment with 60-day guarantee"),
                reason_to_buy |-> PyStr("Experience initial results without a larger investment"),
                scarcity_element |-> PyStr("First-time customer special - not available after exit"),
                cta_text |-> PyStr("Yes, I Want the Starter Kit!")
            ])

\* the except branch: a generic offer carrying 'error'
offer_fallback(upsell_type, position, error) ==
    PyDict([
        error |-> PyStr(error),
        offer_type |-> PyStr(upsell_type),
        position |-> PyInt(position),
        product_name |-> PyStr("Default " \o title(upsell_type)),
        headline |-> PyStr("Add this " \o upsell_type \o " to your order"),
        description |-> PyStr("Could not generate description"),
        key_benefits |-> PyList(<<PyStr("Benefit 1"), PyStr("Benefit 2"), PyStr("Benefit 3")>>),
        main_feature |-> PyStr("Main feature"),
        price |-> PyInt(IF upsell_type = "upsell" THEN 97 ELSE 47),
        price_description |-> PyStr("One-time payment"),
        reason_to_buy |-> PyStr("Great value"),
        scarcity_element |-> PyStr("Limited time offer"),
        cta_text |-> PyStr("Add to Order")
    ])

AttributeErrorGet(x) == "'" \o x.t \o "' object has no attribute 'get'"

generate_upsell(main_product_info, upsell_type, position) ==
    IF main_product_info.t # "dict"
    THEN offer_fallback(upsell_type, position, AttributeErrorGet(main_product_info))
    ELSE LET brand_name == PyFormat(dict_get(main_product_info, "brand_name", PyStr("Our Product")))
         IN  offer_template(upsell_type, upsell_variant(position), brand_name, position)

\* ------------------------------------------------------------------------
\* scraper.scrape_url
\* ------------------------------------------------------------------------
\* urllib.parse.urlparse on the URL strings the model submits
urlparse(url) ==
    CASE url = "https://example.com/offer" -> [scheme |-> "https", netloc |-> "example.com", path |-> "/offer"]
      [] url = "https://shop.test" -> [scheme |-> "https", netloc |-> "shop.test", path |-> ""]
      [] url = "http:///offer" -> [scheme |-> "http", netloc |-> "", path |-> "/offer"]
      [] url = "//example.com/offer" -> [scheme |-> "", netloc |-> "example.com", path |-> "/offer"]
      [] url = "example.com/offer" -> [scheme |-> "", netloc |-> "", path |-> "example.com/offer"]
      [] url = "" -> [scheme |-> "", netloc |-> "", path |-> ""]

\* the validation checking the scheme only
scrape_url_accepts_no_host(url) ==
    LET parsed_url == urlparse(url)
        domain == parsed_url.netloc
    IN  IF parsed_url.scheme = ""
        THEN PyNone
        ELSE PyDict([
                 url |-> PyStr(url),
                 title |-> PyStr("Sales Page for " \o domain),
                 meta_description |-> PyStr("Premium product offering from " \o domain)
             ])

\* None for a URL without scheme or host, else the placeholder page record (the
\* fields the analyzer never reads are left out)
scrape_url(url) ==
    LET parsed_url == urlparse(url)
        domain == parsed_url.netloc
    IN  IF parsed_url.scheme = "" \/ parsed_url.netloc = ""
        THEN PyNone
        ELSE PyDict([
                 url |-> PyStr(url),
                 title |-> PyStr("Sales Page for " \o domain),
                 meta_description |-> PyStr("Premium product offering from " \o domain)
             ])

\* ------------------------------------------------------------------------
\* ai_engine.analyze_page
\* ------------------------------------------------------------------------
analyze_page(page_data, url) ==
    LET domain == urlparse(url).netloc
    IN  IF page_data.t # "dict"
        THEN PyDict([
                url |-> PyStr(url),
                error |-> PyStr(AttributeErrorGet(page_data)),
                product_type |-> PyStr("Unknown"),
                main_hook |-> PyStr("Could not analyze"),
                target_audience |-> PyStr("Unknown"),
                key_benefits |-> PyList(<<>>),
                pain_points |-> PyList(<<>>),
                unique_selling_points |-> PyList(<<>>),
                pricing_strategy |-> PyStr("Unknown"),
                cta_strategy |-> PyStr("Unknown"),
                persuasion_techniques |-> PyList(<<>>),
                structure_analysis |-> PyStr("Failed to analyze"),
                content_tone |-> PyStr("Unknown"),
                suggested_improvements |-> PyList(<<>>)
            ])
        ELSE PyDict([
                url |-> PyStr(url),
                title |-> dict_get(page_data, "title", PyStr("Sales Page for " \o domain)),
                product_type |-> PyStr("Digital Course & Membership"),
                main_hook |-> PyStr("Transform your results with this premium solution from " \o domain),
                target_audience |-> PyStr("Professionals and businesses looking to improve efficiency and results"),
                key_benefits |-> PyList(<<
                    PyStr("Save time and increase productivity"),
                    PyStr("Improve results with proven systems"),
                    PyStr("Access exclusive resources and community"),
                    PyStr("Learn from industry experts"),
                    PyStr("Implement strategies that actually work"),
                    PyStr("Get personal support and guidance"),
                    PyStr("Stay ahead of competitors"),
                    PyStr("Reduce costs and increase ROI"),
                    PyStr("Scale your operations efficiently"),
                    PyStr("Eliminate common frustrations and bottlenecks")
                >>),
                pain_points |-> PyList(<<
                    PyStr("Lack of time to implement complex solutions"),
                    PyStr("Frustration with inconsistent results"),
                    PyStr("Overwhelmed by too many options and information"),
                    PyStr("Previous solutions that promised but didn't deliver"),
                    PyStr("High costs with minimal returns")
                >>),
                unique_selling_points |-> PyList(<<
                    PyStr("Proprietary system developed by industry leaders"),
                    PyStr("Comprehensive solution with ongoing support"),
                    PyStr("Proven results with case studies and testimonials"),
                    PyStr("Exclusive community access for networking"),
                    PyStr("Step-by-step implementation guidance")
                >>),
                pricing_strategy |-> PyStr("Tiered pricing with limited-time discounts to create urgency. Multiple package options with increasing value. One-time payment structure with bonus offers."),
                cta_strategy |-> PyStr("Strong, direct calls-to-action with urgency elements. Multiple CTAs throughout the page. Form submissions to capture leads."),
                persuasion_techniques |-> PyList(<<
                    PyStr("Social proof through testimonials"),
                    PyStr("Scarcity with limited-time offers"),
                    PyStr("Authority positioning with expert credentials"),
                    PyStr("Risk reversal with guarantees"),
                    PyStr("Reciprocity through bonus offerings"),
                    PyStr("FOMO (Fear of Missing Out)")
                >>),
                structure_analysis |-> PyStr("Classic sales page with a strong headline, problem-agitation-solution format, feature/benefit sections, social proof, pricing options, and multiple CTAs."),
                content_tone |-> PyStr("Professional yet conversational. Authoritative while remaining accessible. High-energy with emphasis on transformation and results."),
                suggested_improvements |-> PyList(<<
                    PyStr("Add more specific case studies with measurable results"),
                    PyStr("Include video testimonials for increased credibility"),
                    PyStr("Create more personalized sections for different audience segments"),
                    PyStr("Strengthen the guarantee to reduce perceived risk"),
                    PyStr("Add an FAQ section to address common objections"),
                    PyStr("Improve mobile responsiveness for better conversion"),
                    PyStr("Add exit-intent popups to capture leaving visitors"),
                    PyStr("Include more precise benefit quantification")
                >>)
            ])

\* ------------------------------------------------------------------------
\* ai_engine.generate_copy
\* ------------------------------------------------------------------------
\* str.lower() on the strings generate_copy lower-cases in the model
lower(s) ==
    CASE s = "Digital Course & Membership" -> "digital course & membership"
      [] s = "Unknown" -> "unknown"
      [] s = "product" -> "product"
      [] s = "Professionals and businesses looking to improve efficiency and results"
           -> "professionals and businesses looking to improve efficiency and results"
      [] s = "Busy Founders" -> "busy founders"
      [] s = "Lack of time to implement complex solutions" -> "lack of time to implement complex solutions"
      [] s = "Frustration with inconsistent results" -> "frustration with inconsistent results"
      [] s = "" -> ""

AttributeErrorLower(x) == "'" \o x.t \o "' object has no attribute 'lower'"

\* the except branch returning a record without its faq
copy_fallback_without_faq(error) ==
    PyDict([
        error |-> PyStr(error),
        headline |-> PyStr("Could not generate headline"),
        subheadline |-> PyStr("Could not generate subheadline"),
        intro |-> PyStr("Could not generate intro"),
        problem_statement |-> PyStr("Could not generate problem statement"),
        solution_intro |-> PyStr("Could not generate solution intro"),
        benefits |-> PyList(<<>>),
        features |-> PyList(<<>>),
        social_proof |-> PyList(<<>>),
        pricing_section |-> PyStr(""),
        guarantee |-> PyStr(""),
        cta_primary |-> PyStr("Buy Now"),
        cta_secondary |-> PyStr("Learn More")
    ])

\* the except branch of generate_copy
copy_fallback(error) ==
    PyDict([
        error |-> PyStr(error),
        headline |-> PyStr("Could not generate headline"),
        subheadline |-> PyStr("Could not generate subheadline"),
        intro |-> PyStr("Could not generate intro"),
        problem_statement |-> PyStr("Could not generate problem statement"),
        solution_intro |-> PyStr("Could not generate solution intro"),
        benefits |-> PyList(<<>>),
        features |-> PyList(<<>>),
        social_proof |-> PyList(<<>>),
        pricing_section |-> PyStr(""),
        guarantee |-> PyStr(""),
        faq |-> PyList(<<>>),
        cta_primary |-> PyStr("Buy Now"),
        cta_secondary |-> PyStr("Learn More")
    ])

\* the first fault the try block of generate_copy hits, "" when there is none
generate_copy_fault(analysis, customizations) ==
    IF analysis.t # "dict" THEN AttributeErrorGet(analysis)
    ELSE IF customizations.t # "dict" THEN AttributeErrorGet(customizations)
    ELSE LET product_type == dict_get(analysis, "product_type", PyStr("product"))
             target_audience == dict_get(customizations, "target_audience",
                                         dict_get(analysis, "target_audience", PyStr("")))
             pain_points == dict_get(analysis, "pain_points", PyList(<<>>))
         IN  IF product_type.t # "str" THEN AttributeErrorLower(product_type)
             ELSE IF target_audience.t # "str" THEN AttributeErrorLower(target_audience)
             ELSE IF pain_points.t = "list" /\ Len(pain_points.v) > 0 /\ pain_points.v[1].t # "str"
                  THEN AttributeErrorLower(pain_points.v[1])
             ELSE IF pain_points.t = "list" /\ Len(pain_points.v) > 1 /\ pain_points.v[2].t # "str"
                  THEN AttributeErrorLower(pain_points.v[2])
             ELSE ""

generate_copy(analysis, customizations_arg) ==
    LET customizations == IF customizations_arg.t = "NoneType" THEN PyEmptyDict ELSE customizations_arg
        fault == generate_copy_fault(analysis, customizations)
    IN  IF fault # "" THEN copy_fallback(fault)
        ELSE
        LET product_type == dict_get(analysis, "product_type", PyStr("product"))
            main_hook == dict_get(analysis, "main_hook", PyStr(""))
            target_audience == dict_get(customizations, "target_audience",
                                        dict_get(analysis, "target_audience", PyStr("")))
            pain_points == dict_get(analysis, "pain_points", PyList(<<>>))
            brand_name == dict_get(customizations, "brand_name", PyStr("Our Product"))
            unique_angle == dict_get(customizations, "unique_angle", PyStr(""))
            pain0 == IF pain_points.t = "list" /\ Len(pain_points.v) > 0
                     THEN lower(pain_points.v[1].v) ELSE "common industry challenges"
            pain1 == IF pain_points.t = "list" /\ Len(pain_points.v) > 1
                     THEN lower(pain_points.v[2].v) ELSE "inconsistent results"
        IN  PyDict([
                headline |-> PyStr("Introducing " \o PyFormat(brand_name) \o ": The Revolutionary " \o PyFormat(product_type) \o " That Transforms Results In Just Days"),
                subheadline |-> PyStr("Join Thousands Who Have Already Discovered The System That " \o PyFormat(main_hook) \o " Without The Usual Stress Or Complexity"),
                intro |-> PyStr("You're about to discover a breakthrough approach to " \o lower(product_type.v) \o " that's helping professionals and businesses achieve exceptional results. " \o PyFormat(brand_name) \o " isn't just another solution - it's a complete transformation system designed specifically for " \o PyFormat(target_audience) \o "."),
                problem_statement |-> PyStr("If you're like most " \o lower(target_audience.v) \o ", you've probably struggled with " \o pain0 \o ", felt frustrated by " \o pain1 \o ", and wasted time on solutions that promised everything but delivered little."),
                solution_intro |-> PyStr("That's why we created " \o PyFormat(brand_name) \o ". " \o PyFormat(unique_angle) \o " This complete system gives you everything you need to overcome these challenges and achieve the results you've been looking for."),
                benefits |-> PyList(<<
                    PyDict([
                        title |-> PyStr("Save Time & Boost Productivity"),
                        description |-> PyStr("Our streamlined system eliminates wasted effort and focuses on what actually works, saving you hours every week.")
                    ]),
                    PyDict([
                        title |-> PyStr("Proven Results System"),
                        description |-> PyStr("Follow our step-by-step approach that has been tested and refined with thousands of successful clients.")
                    ]),
                    PyDict([
                        title |-> PyStr("Expert Community Access"),
                        description |-> PyStr("Connect with industry leaders and peers who can provide valuable insights and support.")
                    ]),
                    PyDict([
                        title |-> PyStr("Personalized Implementation"),
                        description |-> PyStr("Customize the approach to your specific situation with our flexible framework.")
                    ]),
                    PyDict([
                        title |-> PyStr("Ongoing Support & Updates"),
                        description |-> PyStr("You will never be left behind as the industry evolves - we are constantly updating our resources.")
                    ])
                >>),
                features |-> PyList(<<
                    PyDict([
                        title |-> PyStr("Comprehensive Resource Library"),
                        description |-> PyStr("Access over 50+ templates, guides, and tools to implement the system.")
                    ]),
                    PyDict([
                        title |-> PyStr("Step-by-Step Implementation Plan"),
                        description |-> PyStr("Follow our proven 12-week roadmap to transform your results.")
                    ]),
                    PyDict([
                        title |-> PyStr("Expert Masterclass Series"),
                        description |-> PyStr("Learn advanced strategies through 10 in-depth video training modules.")
                    ]),
                    PyDict([
                        title |-> PyStr("Members-Only Community"),
                        description |-> PyStr("Connect with peers and mentors in our active online community.")
                    ]),
                    PyDict([
                        title |-> PyStr("Monthly Live Q&A Sessions"),
                        description |-> PyStr("Get your specific questions answered by our team of experts.")
                    ])
                >>),
                social_proof |-> PyList(<<
                    PyDict([
                        name |-> PyStr("Michael T."),
                        position |-> PyStr("CEO"),
                        text |-> PyStr("I was skeptical about trying another " \o lower(product_type.v) \o ", but " \o PyFormat(brand_name) \o " completely exceeded my expectations. Within just 3 weeks, we saw a 43% improvement in our key metrics. The ROI has been incredible.")
                    ]),
                    PyDict([
                        name |-> PyStr("Sarah J."),
                        position |-> PyStr("Marketing Director"),
                        text |-> PyStr("What I love about " \o PyFormat(brand_name) \o " is how practical everything is. No fluff, just actionable strategies that work. We have implemented the system across our entire department with fantastic results.")
                    ]),
                    PyDict([
                        name |-> PyStr("David K."),
                        position |-> PyStr("Small Business Owner"),
                        text |-> PyStr("As someone who has tried every solution on the market, I can confidently say " \o PyFormat(brand_name) \o " is in a league of its own. The support alone is worth the investment, but the results we have achieved make it priceless.")
                    ])
                >>),
                pricing_section |-> PyStr("Investment In Your Success\n\nThe complete " \o PyFormat(brand_name) \o " system is available for just $497 - a fraction of the value you'll receive and the results you'll achieve. This one-time investment gives you lifetime access to the entire system with no recurring fees or hidden costs.\n\nWhen you consider that most clients report ROI within the first 30 days, this becomes an easy decision for serious professionals."),
                guarantee |-> PyStr("Our 100% Risk-Free Guarantee\n\nWe are so confident in the power of " \o PyFormat(brand_name) \o " that we offer a complete 30-day money-back guarantee. Try the entire system, implement the strategies, and if you do not see meaningful results, simply let us know and we will refund your entire investment - no questions asked."),
                faq |-> PyList(<<
                    PyDict([
                        question |-> PyStr("How is " \o PyFormat(brand_name) \o " different from other solutions?"),
                        answer |-> PyStr(PyFormat(brand_name) \o " stands apart through its comprehensive approach that combines proven strategies, ongoing support, and a focus on practical implementation. Unlike most programs that deliver information without guidance, we provide a complete system for success.")
                    ]),
                    PyDict([
                        question |-> PyStr("How quickly will I see results?"),
                        answer |-> PyStr("Most clients begin seeing initial results within the first 2-3 weeks of implementation. However, the most significant improvements typically come after 6-8 weeks of consistent application.")
                    ]),
                    PyDict([
                        question |-> PyStr("Do I need technical skills to implement this?"),
                        answer |-> PyStr("No technical expertise is required. We have designed the system to be accessible for everyone, with clear step-by-step guidance and support available if you have questions.")
                    ]),
                    PyDict([
                        question |-> PyStr("Is there ongoing support?"),
                        answer |-> PyStr("Yes! Your purchase includes lifetime access to our support team and community. We are committed to your long-term success.")
                    ]),
                    PyDict([
                        question |-> PyStr("What if this does not work for my specific situation?"),
                        answer |-> PyStr("Our system is highly adaptable to various scenarios. However, if you find it is not a good fit, our 30-day guarantee ensures you can get a full refund.")
                    ])
                >>),
                cta_primary |-> PyStr("Yes! I Want Access To " \o PyFormat(brand_name) \o " Now"),
                cta_secondary |-> PyStr("Learn More About Our Process")
            ])

\* ------------------------------------------------------------------------
\* funnel_generator.design_funnel_flow
\* ------------------------------------------------------------------------
DefaultNumOffers == 10

\* the upsell node that always accepts to the next upsell
upsell_node_always_next(upsells, i) ==
    PyDict([
        id |-> PyStr("upsell_" \o ToString(i)),
        type |-> PyStr("upsell"),
        name |-> dict_get(upsells.v[i], "product_name", PyStr("Upsell " \o ToString(i))),
        accept_action |-> PyStr("to_upsell_" \o ToString(i + 1)),
        decline_action |-> PyStr("to_downsell_" \o ToString(i))
    ])

\* the node of upsells[i-1] (i is 1-based, the code's i + 1)
upsell_node(upsells, i) ==
    PyDict([
        id |-> PyStr("upsell_" \o ToString(i)),
        type |-> PyStr("upsell"),
        name |-> dict_get(upsells.v[i], "product_name", PyStr("Upsell " \o ToString(i))),
        accept_action |-> PyStr(IF i - 1 < Len(upsells.v) - 1
                                THEN "to_upsell_" \o ToString(i + 1) ELSE "to_thank_you"),
        decline_action |-> PyStr("to_downsell_" \o ToString(i))
    ])

\* the downsell node whose onward target is chosen one index late
downsell_node_late(upsells, downsells, i) ==
    LET next_action == IF i - 1 < Len(upsells.v)
                       THEN "to_upsell_" \o ToString(i + 1) ELSE "to_thank_you"
    IN  PyDict([
            id |-> PyStr("downsell_" \o ToString(i)),
            type |-> PyStr("downsell"),
            name |-> dict_get(downsells.v[i], "product_name", PyStr("Downsell " \o ToString(i))),
            accept_action |-> PyStr(next_action),
            decline_action |-> PyStr(next_action)
        ])

\* the downsell node that sends the visitor back to the upsell just declined
downsell_node_back(upsells, downsells, i) ==
    LET next_action == "to_upsell_" \o ToString(i)
    IN  PyDict([
            id |-> PyStr("downsell_" \o ToString(i)),
            type |-> PyStr("downsell"),
            name |-> dict_get(downsells.v[i], "product_name", PyStr("Downsell " \o ToString(i))),
            accept_action |-> PyStr(next_action),
            decline_action |-> PyStr(next_action)
        ])

\* the node of downsells[i-1]
downsell_node(upsells, downsells, i) ==
    LET next_action == IF i - 1 < Len(upsells.v) - 1
                       THEN "to_upsell_" \o ToString(i + 1) ELSE "to_thank_you"
    IN  PyDict([
            id |-> PyStr("downsell_" \o ToString(i)),
            type |-> PyStr("downsell"),
            name |-> dict_get(downsells.v[i], "product_name", PyStr("Downsell " \o ToString(i))),
            accept_action |-> PyStr(next_action),
            decline_action |-> PyStr(next_action)
        ])

\* the flow whose main page leads on to thank_you when there is no upsell
design_funnel_flow_skips_missing(main_page, upsells, downsells) ==
    PyList(
        << PyDict([
               id |-> PyStr("main"),
               type |-> PyStr("main"),
               name |-> PyStr("Main Sales Page"),
               accept_action |-> PyStr(IF Len(upsells.v) = 0 THEN "to_thank_you" ELSE "to_upsell_1"),
               decline_action |-> PyStr("exit")
           ]) >>
        \o [i \in 1..Len(upsells.v) |-> upsell_node(upsells, i)]
        \o [i \in 1..Len(downsells.v) |-> downsell_node(upsells, downsells, i)]
        \o << PyDict([
               id |-> PyStr("thank_you"),
               type |-> PyStr("thank_you"),
               name |-> PyStr("Thank You Page"),
               accept_action |-> PyStr("exit"),
               decline_action |-> PyStr("exit")
           ]) >>)

design_funnel_flow(main_page, upsells, downsells) ==
    PyList(
        << PyDict([
               id |-> PyStr("main"),
               type |-> PyStr("main"),
               name |-> PyStr("Main Sales Page"),
               accept_action |-> PyStr("to_upsell_1"),
               decline_action |-> PyStr("exit")
           ]) >>
        \o [i \in 1..Len(upsells.v) |-> upsell_node(upsells, i)]
        \o [i \in 1..Len(downsells.v) |-> downsell_node(upsells, downsells, i)]
        \o << PyDict([
               id |-> PyStr("thank_you"),
               type |-> PyStr("thank_you"),
               name |-> PyStr("Thank You Page"),
               accept_action |-> PyStr("exit"),
               decline_action |-> PyStr("exit")
           ]) >>)

\* ------------------------------------------------------------------------
\* funnel_generator.generate_funnel
\* ------------------------------------------------------------------------
\* the loop passing i instead of i + 1
offers_from_zero(main_product_info, upsell_type, n) ==
    PyList([i \in 1..n |-> generate_upsell(main_product_info, upsell_type, i - 1)])

\* [generate_upsell(info, kind, i + 1) for i in range(n)]; range(n) is empty for n <= 0
offers(main_product_info, upsell_type, n) ==
    PyList([i \in 1..n |-> generate_upsell(main_product_info, upsell_type, i)])

\* analysis and customizations are dicts and the two counts, when present, ints:
\* the only values create_funnel passes
generate_funnel(analysis, customizations) ==
    LET main_page == generate_copy(analysis, customizations)
        main_product_info == PyDict([
            product_type |-> dict_get(analysis, "product_type", PyStr("product")),
            brand_name |-> dict_get(customizations, "brand_name", PyStr("Our Product"))
        ])
        num_upsells == dict_get(customizations, "num_upsells", PyInt(DefaultNumOffers))
        upsells == offers(main_product_info, "upsell", num_upsells.v)
        num_downsells == dict_get(customizations, "num_downsells", PyInt(DefaultNumOffers))
        downsells == offers(main_product_info, "downsell", num_downsells.v)
        funnel_flow == design_funnel_flow(main_page, upsells, downsells)
    IN  PyDict([
            main_page |-> main_page,
            upsells |-> upsells,
            downsells |-> downsells,
            funnel_flow |-> funnel_flow,
            customizations |-> customizations,
            base_analysis |-> analysis
        ])

\* ------------------------------------------------------------------------
\* json.dumps / json.loads
\* ------------------------------------------------------------------------
\* the JSON text of a value: a str that json.loads parses back to the value
json_dumps(value) == [t |-> "str", json |-> value]

\* whether json.loads(s) returns (it raises TypeError on None and JSONDecodeError
\* on a str that is not JSON text)
json_parses(s) == s.t = "str" /\ "json" \in DOMAIN s

json_loads(s) == s.json

json_loads_error(s) ==
    IF s.t # "str"
    THEN "the JSON object must be str, bytes or bytearray, not " \o s.t
    ELSE "Expecting value: line 1 column 1 (char 0)"

\* ------------------------------------------------------------------------
\* email_generator.generate_email_sequence
\* ------------------------------------------------------------------------
MaxEmailsRequested == 20
DefaultNumEmails == 10

\* bool(x) of the values the model tests for truth
truthy(x) ==
    CASE x.t = "NoneType" -> FALSE
      [] x.t = "list" -> Len(x.v) > 0
      [] x.t = "dict" -> DOMAIN x.v # {}
      [] x.t = "str" -> IF "json" \in DOMAIN x THEN TRUE ELSE x.v # ""
      [] x.t = "int" -> x.v # 0

\* seq[:n]
take(seq, n) == [i \in 1..(IF Len(seq) < n THEN Len(seq) ELSE n) |-> seq[i]]

RECURSIVE join(_, _)
\* sep.join(strs) for a sequence of TLA+ strings
join(sep, strs) ==
    IF Len(strs) = 0 THEN ""
    ELSE IF Len(strs) = 1 THEN strs[1]
    ELSE strs[1] \o sep \o join(sep, Tail(strs))

\* no clamp: the first argument whatever the second
min_first(a, b) == a

min(a, b) == IF a < b THEN a ELSE b

\* the fallback with its last email lost
email_fallback_short(error, customizations) ==
    PyDict([
        error |-> PyStr(error),
        sequence_name |-> PyStr("Basic Sales Sequence"),
        sequence_type |-> PyStr("sales"),
        purpose |-> PyStr("To nurture leads and drive sales"),
        num_emails |-> PyInt(3),
        brand_name |-> dict_get(customizations, "brand_name", PyStr("Our Product")),
        timing |-> PyDict([k \in {"1", "2"} |-> PyStr("Day " \o k)]),
        emails |-> PyList(<<
            PyDict([
                subject |-> PyStr("Welcome to [Brand Name]"),
                body |-> PyStr("Welcome email content goes here..."),
                purpose |-> PyStr("Introduction"),
                call_to_action |-> PyStr("Visit our website")
            ]),
            PyDict([
                subject |-> PyStr("Benefits of [Product Name]"),
                body |-> PyStr("Benefits email content goes here..."),
                purpose |-> PyStr("Highlight benefits"),
                call_to_action |-> PyStr("Learn more")
            ])
        >>)
    ])

\* the value the except branch of generate_email_sequence returns
email_fallback(error, customizations) ==
    PyDict([
        error |-> PyStr(error),
        sequence_name |-> PyStr("Basic Sales Sequence"),
        sequence_type |-> PyStr("sales"),
        purpose |-> PyStr("To nurture leads and drive sales"),
        num_emails |-> PyInt(3),
        brand_name |-> dict_get(customizations, "brand_name", PyStr("Our Product")),
        timing |-> PyDict([k \in {"1", "2", "3"} |->
                      CASE k = "1" -> PyStr("Day 0 (Immediately)")
                        [] k = "2" -> PyStr("Day 2")
                        [] k = "3" -> PyStr("Day 4")]),
        emails |-> PyList(<<
            PyDict([
                subject |-> PyStr("Welcome to [Brand Name]"),
                body |-> PyStr("Welcome email content goes here..."),
                purpose |-> PyStr("Introduction"),
                call_to_action |-> PyStr("Visit our website")
            ]),
            PyDict([
                subject |-> PyStr("Benefits of [Product Name]"),
                body |-> PyStr("Benefits email content goes here..."),
                purpose |-> PyStr("Highlight benefits"),
                call_to_action |-> PyStr("Learn more")
            ]),
            PyDict([
                subject |-> PyStr("Special Offer Inside"),
                body |-> PyStr("Promotional email content goes here..."),
                purpose |-> PyStr("Drive sales"),
                call_to_action |-> PyStr("Buy now")
            ])
        >>)
    ])

\* product_benefits after the isinstance(dict) conversion to list(values()); the
\* order of the values is the dict's insertion order, here some fixed order
email_benefits(main_page) ==
    LET product_benefits == dict_get(main_page, "benefits", PyList(<<>>))
    IN  IF product_benefits.t = "dict"
        THEN LET keys == DOMAIN product_benefits.v
                 order == CHOOSE f \in [1..Cardinality(keys) -> keys] :
                              \A i, j \in 1..Cardinality(keys) : f[i] = f[j] => i = j
             IN  PyList([i \in 1..Cardinality(keys) |-> product_benefits.v[order[i]]])
        ELSE product_benefits

\* the fault, if any, that the try block hits before the request is made ("" if none)
email_fault_before_request(main_page, upsells, customizations, params) ==
    IF params.t # "dict" THEN AttributeErrorGet(params)
    ELSE IF dict_get(params, "num_emails", PyInt(DefaultNumEmails)).t # "int"
    THEN "'<' not supported between instances of 'int' and '"
         \o dict_get(params, "num_emails", PyInt(DefaultNumEmails)).t \o "'"
    ELSE IF customizations.t # "dict" THEN AttributeErrorGet(customizations)
    ELSE IF main_page.t # "dict" THEN AttributeErrorGet(main_page)
    ELSE LET product_benefits == email_benefits(main_page)
             first5 == IF product_benefits.t = "list" THEN take(product_benefits.v, 5) ELSE <<>>
             bad == {i \in 1..Len(first5) : first5[i].t # "str"}
             first3 == IF upsells.t = "list" THEN take(upsells.v, 3) ELSE <<>>
             badu == {i \in 1..Len(first3) : first3[i].t # "dict"}
         IN  IF bad # {}
             THEN LET i == CHOOSE i \in bad : \A j \in bad : i <= j
                  IN  "sequence item " \o ToString(i - 1) \o ": expected str instance, "
                      \o first5[i].t \o " found"
             ELSE IF badu # {}
             THEN AttributeErrorGet(first3[CHOOSE i \in badu : \A j \in badu : i <= j])
             ELSE ""

\* the user prompt, as the values interpolated into its template
email_prompt(main_page, upsells, customizations, params) ==
    LET product_benefits == email_benefits(main_page)
        first3 == IF upsells.t = "list" THEN take(upsells.v, 3) ELSE <<>>
    IN  [ brand_name |-> PyFormat(dict_get(customizations, "brand_name", PyStr("Our Product"))),
          product_headline |-> PyFormat(dict_get(main_page, "headline", PyStr("Our Amazing Product"))),
          key_benefits |-> IF product_benefits.t = "list"
                           THEN join(", ", [i \in 1..Len(take(product_benefits.v, 5)) |->
                                                product_benefits.v[i].v])
                           ELSE "",
          sequence_type |-> PyFormat(dict_get(params, "sequence_type", PyStr("sales"))),
          email_style |-> PyFormat(dict_get(params, "email_style", PyStr("conversational"))),
          num_emails |-> min(dict_get(params, "num_emails", PyInt(DefaultNumEmails)).v,
                             MaxEmailsRequested),
          upsell_descriptions |->
              [i \in 1..Len(first3) |->
                  PyFormat(dict_get(first3[i], "product_name", PyStr("Upsell " \o ToString(i))))
                  \o " - " \o PyFormat(dict_get(first3[i], "description", PyStr("")))] ]

\* len(x) is defined for lists and dicts among the values the model answers with
has_len(x) == x.t \in {"list", "dict"}
len(x) == IF x.t = "list" THEN Len(x.v) ELSE Cardinality(DOMAIN x.v)

\* the fault, if any, between the response and the return ("" if none)
email_fault_after_request(service) ==
    IF service.kind = "raises" THEN service.error
    ELSE IF ~json_parses(service.content) THEN json_loads_error(service.content)
    ELSE LET email_sequence == json_loads(service.content)
         IN  IF email_sequence.t # "dict" THEN AttributeErrorGet(email_sequence)
             ELSE IF ~has_len(dict_get(email_sequence, "emails", PyList(<<>>)))
             THEN "object of type '" \o dict_get(email_sequence, "emails", PyList(<<>>)).t
                  \o "' has no len()"
             ELSE ""

\* d[key] = value on a dict
dict_set(d, key, value) ==
    PyDict([k \in DOMAIN d.v \cup {key} |-> IF k = key THEN value ELSE d.v[k]])

\* the except branch re-raising what it caught
email_handler_reraises(customizations, error, requests) ==
    [raised |-> error, requests |-> requests, value |-> PyNone]

\* the except branch: it returns the fallback, reading customizations.get again
email_handler(customizations, error, requests) ==
    IF customizations.t # "dict"
    THEN [raised |-> AttributeErrorGet(customizations), requests |-> requests, value |-> PyNone]
    ELSE [raised |-> "", requests |-> requests, value |-> email_fallback(error, customizations)]

\* what the call does: the exception that leaves it ("" if none), the requests it
\* sent to the text-generation service, and the value it returns
generate_email_sequence(funnel_data, params_arg, service) ==
    LET params == IF params_arg.t = "NoneType" THEN PyEmptyDict ELSE params_arg
    IN  IF funnel_data.t # "dict"
        THEN \* line 36 faults before customizations is bound, and the handler reads it
             [raised |-> "local variable 'customizations' referenced before assignment",
              requests |-> <<>>, value |-> PyNone]
        ELSE
        LET main_page == dict_get(funnel_data, "main_page", PyEmptyDict)
            upsells == dict_get(funnel_data, "upsells", PyList(<<>>))
            customizations == dict_get(funnel_data, "customizations", PyEmptyDict)
            before == email_fault_before_request(main_page, upsells, customizations, params)
        IN  IF before # "" THEN email_handler(customizations, before, <<>>)
            ELSE
            LET request == email_prompt(main_page, upsells, customizations, params)
                after == email_fault_after_request(service)
            IN  IF after # "" THEN email_handler(customizations, after, <<request>>)
                ELSE
                LET email_sequence == json_loads(service.content)
                    brand_name == dict_get(customizations, "brand_name", PyStr("Our Product"))
                IN  [raised |-> "", requests |-> <<request>>,
                     value |-> dict_set(
                                 dict_set(email_sequence, "num_emails",
                                     PyInt(len(dict_get(email_sequence, "emails", PyList(<<>>))))),
                                 "brand_name", brand_name)]

\* ------------------------------------------------------------------------
\* funnel_generator.create_html_page, create_zip_export
\* ------------------------------------------------------------------------
\* the page rendered from templates/<page_type>.html when the template loads and
\* renders, the inline skeleton of the except branch otherwise
create_html_page(page_data, page_type, templates) ==
    IF page_type \in templates
    THEN [html |-> "template", template |-> page_type \o ".html", page |-> page_data]
    ELSE [html |-> "fallback",
          title |-> PyFormat(dict_get(page_data, "headline", PyStr("Funnel Page"))),
          p |-> PyFormat(dict_get(page_data, "description", PyStr(""))),
          button |-> PyFormat(dict_get(page_data, "cta_text", PyStr("Continue")))]

generate_js(funnel_data) ==
    [js |-> "funnelFlow", funnelFlow |-> json_dumps(dict_get(funnel_data, "funnel_flow", PyList(<<>>)))]

create_thank_you_page(funnel_data) ==
    [html |-> "thank_you",
     title |-> "Thank You for Your Purchase | "
               \o PyFormat(dict_get(dict_get(funnel_data, "customizations", PyEmptyDict),
                                    "brand_name", PyStr("Our Product")))]

generate_documentation(project, funnel_data) ==
    [txt |-> "documentation", name |-> project.name, url |-> project.url,
     upsells |-> Len(dict_get(funnel_data, "upsells", PyList(<<>>)).v),
     downsells |-> Len(dict_get(funnel_data, "downsells", PyList(<<>>)).v)]

\* the text written as emails/email_<i>.txt
email_content(email, i) ==
    "\nSubject: " \o PyFormat(dict_get(email, "subject", PyStr("Email " \o ToString(i))))
    \o "\n\n" \o PyFormat(dict_get(email, "body", PyStr("Email content")))
    \o "\n                    "

\* the items a for loop over emails visits: the elements of a list, the keys of a dict
iter_items(x) ==
    IF x.t = "list" THEN x.v
    ELSE LET keys == DOMAIN x.v
             order == CHOOSE f \in [1..Cardinality(keys) -> keys] :
                          \A i, j \in 1..Cardinality(keys) : f[i] = f[j] => i = j
         IN  [i \in 1..Cardinality(keys) |-> PyStr(order[i])]

\* the email block writing the emails without their README
email_entries_without_readme(email_sequence) ==
    LET emails == iter_items(dict_get(email_sequence, "emails", PyList(<<>>)))
        bad == {i \in 1..Len(emails) : emails[i].t # "dict"}
        n == IF bad = {} THEN Len(emails) ELSE (CHOOSE i \in bad : \A j \in bad : i <= j) - 1
        written == [i \in 1..n |-> [name |-> "emails/email_" \o ToString(i) \o ".txt",
                                    content |-> [txt |-> email_content(emails[i], i)]]]
        timing == dict_get(email_sequence, "timing", PyEmptyDict)
    IN  IF bad # {}
        THEN [raised |-> AttributeErrorGet(emails[n + 1]), entries |-> written]
        ELSE IF Len(emails) - 1 > 0 /\ timing.t # "dict"
        THEN [raised |-> AttributeErrorGet(timing), entries |-> written]
        ELSE [raised |-> "", entries |-> written]

\* the entries the email block of create_zip_export writes, and the fault that ends it
email_entries(email_sequence) ==
    LET emails == iter_items(dict_get(email_sequence, "emails", PyList(<<>>)))
        bad == {i \in 1..Len(emails) : emails[i].t # "dict"}
        n == IF bad = {} THEN Len(emails) ELSE (CHOOSE i \in bad : \A j \in bad : i <= j) - 1
        written == [i \in 1..n |-> [name |-> "emails/email_" \o ToString(i) \o ".txt",
                                    content |-> [txt |-> email_content(emails[i], i)]]]
        timing == dict_get(email_sequence, "timing", PyEmptyDict)
    IN  IF bad # {}
        THEN [raised |-> AttributeErrorGet(emails[n + 1]), entries |-> written]
        ELSE IF Len(emails) - 1 > 0 /\ timing.t # "dict"
        THEN [raised |-> AttributeErrorGet(timing), entries |-> written]
        ELSE [raised |-> "",
              entries |-> written \o
                  << [name |-> "emails/README.txt",
                      content |-> [txt |-> "Email Sequence Documentation",
                                   emails |-> Len(emails)]] >>]

\* what the call does: the exception that leaves it ("" if none), whether
\* <project.id>.zip was opened for writing (created or truncated), and the entries
\* the file holds when the call ends
create_zip_export(project, templates) ==
    LET funnel_data == IF truthy(project.funnel_data) THEN json_loads(project.funnel_data) ELSE PyNone
        email_sequence == IF truthy(project.email_sequence) THEN json_loads(project.email_sequence) ELSE PyNone
    IN  IF ~truthy(funnel_data)
        THEN [raised |-> "No funnel data available for export", opened |-> FALSE, entries |-> <<>>]
        ELSE
        LET upsells == dict_get(funnel_data, "upsells", PyList(<<>>)).v
            downsells == dict_get(funnel_data, "downsells", PyList(<<>>)).v
            pages ==
                << [name |-> "index.html",
                    content |-> create_html_page(dict_get(funnel_data, "main_page", PyEmptyDict), "main", templates)],
                   [name |-> "style.css", content |-> [css |-> "generate_css"]],
                   [name |-> "funnel.js", content |-> generate_js(funnel_data)] >>
                \o [i \in 1..Len(upsells) |->
                       [name |-> "upsell_" \o ToString(i) \o ".html",
                        content |-> create_html_page(upsells[i], "upsell", templates)]]
                \o [i \in 1..Len(downsells) |->
                       [name |-> "downsell_" \o ToString(i) \o ".html",
                        content |-> create_html_page(downsells[i], "downsell", templates)]]
                \o << [name |-> "thank_you.html", content |-> create_thank_you_page(funnel_data)] >>
            mail == IF truthy(email_sequence) THEN email_entries(email_sequence)
                    ELSE [raised |-> "", entries |-> <<>>]
        IN  IF mail.raised # ""
            THEN [raised |-> mail.raised, opened |-> TRUE, entries |-> pages \o mail.entries]
            ELSE [raised |-> "", opened |-> TRUE,
                  entries |-> pages \o mail.entries
                      \o << [name |-> "README.txt",
                             content |-> generate_documentation(project, funnel_data)] >>]

\* ------------------------------------------------------------------------
\* app.py: the wizard routes
\* ------------------------------------------------------------------------
ProjectIds == 1..MaxProjects

\* int(x) of a form value: whether it parses, and its value
int_parses(x) == x.t = "int" \/ (x.t = "str" /\ \E n \in 0..DefaultNumOffers : ToString(n) = x.v)
int_value(x) == IF x.t = "int" THEN x.v ELSE CHOOSE n \in 0..DefaultNumOffers : ToString(n) = x.v
int_error(x) ==
    IF x.t = "str" THEN "invalid literal for int() with base 10: '" \o x.v \o "'"
    ELSE "int() argument must be a string, a bytes-like object or a real number, not '" \o x.t \o "'"

\* Project.query.get(project_id) is None
not_found(project_id) == projects[project_id].t = "NoneType"

\* the id the database gives a new row: SQLite's rowid, one more than the largest
new_project_id ==
    IF \A i \in ProjectIds : not_found(i) THEN 1
    ELSE (CHOOSE i \in ProjectIds : ~not_found(i) /\ \A j \in ProjectIds : ~not_found(j) => j <= i) + 1

Flash(message, category) == [message |-> message, category |-> category]
NoFlash == [message |-> "", category |-> ""]

\* the row created without a status, which the column default makes "new"
new_project_default_status(id, name, url, analysis) ==
    [t |-> "Project", id |-> id, name |-> name, url |-> url,
     status |-> "new",
     analysis |-> json_dumps(analysis),
     funnel_data |-> PyNone,
     email_sequence |-> PyNone]

\* the row analyze adds
new_project(id, name, url, analysis) ==
    [t |-> "Project", id |-> id, name |-> name, url |-> url,
     status |-> "analyzed",
     analysis |-> json_dumps(analysis),
     funnel_data |-> PyNone,
     email_sequence |-> PyNone]

\* the funnel saved with the final status
save_funnel_completed(project, funnel_data) ==
    [project EXCEPT !.funnel_data = json_dumps(funnel_data), !.status = "completed"]

\* the row create_funnel commits
save_funnel(project, funnel_data) ==
    [project EXCEPT !.funnel_data = json_dumps(funnel_data), !.status = "funnel_generated"]

\* the row create_email_sequence commits
save_email_sequence(project, email_sequence) ==
    [project EXCEPT !.email_sequence = json_dumps(email_sequence), !.status = "completed"]

\* POST /analyze
analyze(url, name) ==
    IF ~truthy(url)
    THEN /\ last' = [op |-> "analyze", url |-> url, http |-> 302, location |-> "index",
                     flash |-> Flash("Please provide a URL to analyze", "danger")]
         /\ UNCHANGED projects
    ELSE LET content == scrape_url(url.v)
         IN  IF ~truthy(content)
             THEN /\ last' = [op |-> "analyze", url |-> url, http |-> 302, location |-> "index",
                              flash |-> Flash("Could not extract content from the provided URL", "danger")]
                  /\ UNCHANGED projects
             ELSE LET analysis == analyze_page(content, url.v)
                      id == new_project_id
                  IN  /\ id \in ProjectIds
                      /\ projects' = [projects EXCEPT ![id] = new_project(id, name, url.v, analysis)]
                      /\ last' = [op |-> "analyze", url |-> url, http |-> 302,
                                  location |-> "funnel_editor", flash |-> NoFlash]

\* POST /generate_funnel/<project_id>
create_funnel(project_id, form) ==
    IF not_found(project_id)
    THEN /\ last' = [op |-> "create_funnel", project_id |-> project_id, form |-> form, http |-> 404,
                     location |-> "", flash |-> NoFlash]
         /\ UNCHANGED projects
    ELSE LET project == projects[project_id]
             num_upsells == dict_get(form, "num_upsells", PyInt(DefaultNumOffers))
             num_downsells == dict_get(form, "num_downsells", PyInt(DefaultNumOffers))
             error == IF ~int_parses(num_upsells) THEN int_error(num_upsells)
                      ELSE IF ~int_parses(num_downsells) THEN int_error(num_downsells)
                      ELSE IF ~json_parses(project.analysis) THEN json_loads_error(project.analysis)
                      ELSE ""
         IN  IF error # ""
             THEN /\ last' = [op |-> "create_funnel", project_id |-> project_id, form |-> form, http |-> 302,
                              location |-> "funnel_editor",
                              flash |-> Flash("Error generating funnel: " \o error, "danger")]
                  /\ UNCHANGED projects
             ELSE LET customizations == PyDict([
                          brand_name |-> dict_get(form, "brand_name", PyNone),
                          unique_angle |-> dict_get(form, "unique_angle", PyNone),
                          target_audience |-> dict_get(form, "target_audience", PyNone),
                          num_upsells |-> PyInt(int_value(num_upsells)),
                          num_downsells |-> PyInt(int_value(num_downsells))
                      ])
                      analysis == json_loads(project.analysis)
                      funnel_data == generate_funnel(analysis, customizations)
                  IN  /\ projects' = [projects EXCEPT ![project_id] = save_funnel(project, funnel_data)]
                      /\ last' = [op |-> "create_funnel", project_id |-> project_id, form |-> form, http |-> 302,
                                  location |-> "email_sequence", flash |-> NoFlash]

\* POST /generate_emails/<project_id>; service is what the text-generation service
\* does if it is asked
create_email_sequence(project_id, form, service) ==
    IF not_found(project_id)
    THEN /\ last' = [op |-> "create_email_sequence", project_id |-> project_id, http |-> 404,
                     location |-> "", flash |-> NoFlash, service |-> "not_asked", sent |-> <<>>]
         /\ UNCHANGED projects
    ELSE LET project == projects[project_id]
             num_emails == dict_get(form, "num_emails", PyInt(DefaultNumEmails))
             params == PyDict([
                 num_emails |-> IF int_parses(num_emails) THEN PyInt(int_value(num_emails)) ELSE PyNone,
                 sequence_type |-> dict_get(form, "sequence_type", PyStr("sales")),
                 email_style |-> dict_get(form, "email_style", PyStr("conversational"))
             ])
             early == IF ~int_parses(num_emails) THEN int_error(num_emails)
                      ELSE IF ~json_parses(project.funnel_data) THEN json_loads_error(project.funnel_data)
                      ELSE ""
             result == IF early # "" THEN [raised |-> early, requests |-> <<>>, value |-> PyNone]
                       ELSE generate_email_sequence(json_loads(project.funnel_data), params, service)
         IN  IF result.raised # ""
             THEN /\ last' = [op |-> "create_email_sequence", project_id |-> project_id, http |-> 302,
                              location |-> "email_sequence",
                              flash |-> Flash("Error generating email sequence: " \o result.raised, "danger"),
                              service |-> IF result.requests = <<>> THEN "not_asked" ELSE service.kind,
                              sent |-> result.requests]
                  /\ UNCHANGED projects
             ELSE /\ projects' = [projects EXCEPT ![project_id] = save_email_sequence(project, result.value)]
                  /\ last' = [op |-> "create_email_sequence", project_id |-> project_id, http |-> 302,
                              location |-> "export", flash |-> NoFlash,
                              service |-> IF result.requests = <<>> THEN "not_asked" ELSE service.kind,
                              sent |-> result.requests]

\* POST /download/<project_id>; templates are the page templates that load and render
download_project(project_id, templates) ==
    /\ UNCHANGED projects
    /\ IF not_found(project_id)
       THEN last' = [op |-> "download_project", project_id |-> project_id, http |-> 404,
                     success |-> FALSE, error |-> "", opened |-> FALSE, entries |-> <<>>]
       ELSE LET zip == create_zip_export(projects[project_id], templates)
            IN  last' = [op |-> "download_project", project_id |-> project_id, http |-> 200,
                         success |-> (zip.raised = ""), error |-> zip.raised,
                         opened |-> zip.opened, entries |-> zip.entries]

\* POST /delete_project/<project_id>
delete_project(project_id) ==
    IF not_found(project_id)
    THEN /\ last' = [op |-> "delete_project", project_id |-> project_id, http |-> 404,
                     location |-> "", flash |-> NoFlash]
         /\ UNCHANGED projects
    ELSE /\ projects' = [projects EXCEPT ![project_id] = PyNone]
         /\ last' = [op |-> "delete_project", project_id |-> project_id, http |-> 302,
                     location |-> "dashboard",
                     flash |-> Flash("Project deleted successfully", "success")]

\* ------------------------------------------------------------------------
\* The requests the model submits
\* ------------------------------------------------------------------------
\* no URL, an empty one, a URL without scheme and host, one without host, one without scheme, a good one
Urls == { PyNone, PyStr(""), PyStr("example.com/offer"), PyStr("http:///offer"),
          PyStr("//example.com/offer"), PyStr("https://example.com/offer") }

\* the funnel forms: with a target audience, without the field, and with a count
\* that is no number
FunnelForms ==
    { PyDict([brand_name |-> PyStr("Acme"), unique_angle |-> PyStr(""),
              target_audience |-> PyStr("Busy Founders"),
              num_upsells |-> PyStr(ToString(MaxFormOffers)), num_downsells |-> PyStr("1")]),
      PyDict([brand_name |-> PyStr("Acme"), unique_angle |-> PyStr(""),
              num_upsells |-> PyStr(ToString(MaxFormOffers)), num_downsells |-> PyStr("1")]),
      PyDict([brand_name |-> PyStr("Acme"), unique_angle |-> PyStr(""),
              target_audience |-> PyStr("Busy Founders"),
              num_upsells |-> PyStr("two"), num_downsells |-> PyStr("1")]) }

EmailForms ==
    { PyDict([num_emails |-> PyStr("5"), sequence_type |-> PyStr("sales"),
              email_style |-> PyStr("conversational")]),
      PyDict([num_emails |-> PyStr("many"), sequence_type |-> PyStr("sales"),
              email_style |-> PyStr("conversational")]) }

\* an answer of the service with n well-formed emails
service_emails(n) ==
    PyList([i \in 1..n |-> PyDict([
        subject |-> PyStr("Subject " \o ToString(i)),
        body |-> PyStr("Body " \o ToString(i)),
        purpose |-> PyStr("Purpose " \o ToString(i)),
        call_to_action |-> PyStr("Act " \o ToString(i))])])

service_answer(kind, emails, timing) ==
    [kind |-> kind,
     content |-> json_dumps(PyDict([
         sequence_name |-> PyStr("Launch Sequence"),
         sequence_type |-> PyStr("sales"),
         purpose |-> PyStr("Convert leads"),
         timing |-> timing,
         emails |-> emails]))]

DayTiming == PyDict([k \in {"1", "2"} |-> PyStr("Day " \o k)])

\* what the text-generation service does in the wizard runs: it raises, it answers
\* the requested object, or it answers an object whose emails are plain strings
WizardServiceOutcomes ==
    { [kind |-> "raises", error |-> "Connection error."],
      service_answer("answers", service_emails(MaxServiceEmails), DayTiming),
      service_answer("malformed", PyList(<<PyStr("Subject 1: welcome")>>), DayTiming) }

\* ... and in the calls of generate_email_sequence: also text that is not JSON, any
\* number of emails, and JSON objects of other shapes
ServiceOutcomes ==
    WizardServiceOutcomes
    \cup { [kind |-> "not_json", content |-> PyStr("Here is your email sequence:")] }
    \cup { service_answer("answers", service_emails(n), DayTiming) : n \in 0..MaxServiceEmails }
    \cup { [kind |-> "no_emails",
            content |-> json_dumps(PyDict([sequence_name |-> PyStr("Launch Sequence")]))],
           service_answer("malformed", service_emails(MaxServiceEmails), PyStr("Day 1, Day 3")),
           service_answer("malformed", PyNone, DayTiming) }

TemplateSets == { {}, {"main", "upsell", "downsell"} }

\* ------------------------------------------------------------------------
\* The wizard as a state machine
\* ------------------------------------------------------------------------
Sessions == 1..MaxSessions

\* a slot no request has used
NoSession == [phase |-> "idle"]

\* nobody is visiting a funnel
NoVisit == [phase |-> "none"]

Init ==
    /\ projects = [i \in ProjectIds |-> PyNone]
    /\ last = [op |-> "start"]
    /\ sessions = [slot \in Sessions |-> NoSession]
    /\ visit = NoVisit

\* the routes handled one request at a time
Analyze ==
    /\ \E url \in Urls : analyze(url, "Demo")
    /\ UNCHANGED <<sessions, visit>>
CreateFunnel ==
    /\ \E project_id \in ProjectIds, form \in FunnelForms : create_funnel(project_id, form)
    /\ UNCHANGED <<sessions, visit>>
CreateEmailSequence ==
    /\ \E project_id \in ProjectIds, form \in EmailForms, service \in WizardServiceOutcomes :
          create_email_sequence(project_id, form, service)
    /\ UNCHANGED <<sessions, visit>>
DownloadProject ==
    /\ \E project_id \in ProjectIds, templates \in TemplateSets :
          download_project(project_id, templates)
    /\ UNCHANGED <<sessions, visit>>
DeleteProject ==
    /\ \E project_id \in ProjectIds : delete_project(project_id)
    /\ UNCHANGED <<sessions, visit>>

Next ==
    \/ Analyze
    \/ CreateFunnel
    \/ CreateEmailSequence
    \/ DownloadProject
    \/ DeleteProject

Spec == Init /\ [][Next]_vars

\* the routes once the only project, project 1, has been deleted: the state
\* after analyze has stored project 1 and delete_project(1) has committed
InitAfterDelete ==
    /\ projects = [i \in ProjectIds |-> PyNone]
    /\ last = [op |-> "delete_project", project_id |-> 1, http |-> 302,
               location |-> "dashboard",
               flash |-> Flash("Project deleted successfully", "success")]
    /\ sessions = [slot \in Sessions |-> NoSession]
    /\ visit = NoVisit

SpecAfterDelete == InitAfterDelete /\ [][Next]_vars

\* ------------------------------------------------------------------------
\* The components called on their own
\* ------------------------------------------------------------------------
GoodUrl == "https://example.com/offer"

\* the analysis analyze stores for GoodUrl
NominalAnalysis == analyze_page(scrape_url(GoodUrl), GoodUrl)

ProductInfos ==
    { PyDict([product_type |-> PyStr("Digital Course & Membership"), brand_name |-> PyStr("Acme")]),
      PyDict([product_type |-> PyStr("Digital Course & Membership"), brand_name |-> PyNone]),
      PyDict([product_type |-> PyStr("Digital Course & Membership")]),
      PyNone }

\* customizations as create_funnel builds them (every key present, None for a
\* missing form field) ...
WizardCustomizations ==
    { PyDict([brand_name |-> b, unique_angle |-> PyStr(""), target_audience |-> a,
              num_upsells |-> PyInt(u), num_downsells |-> PyInt(d)])
        : b \in {PyStr("Acme"), PyNone}, a \in {PyStr("Busy Founders"), PyNone},
          u \in 0..MaxOffers, d \in 0..MaxOffers }

\* ... and as a direct caller of generate_funnel may pass them (keys left out)
CallerCustomizations ==
    { PyDict([brand_name |-> PyStr("Acme"), num_upsells |-> PyInt(2), num_downsells |-> PyInt(2)]),
      PyDict([brand_name |-> PyStr("Acme")]),
      PyEmptyDict }

\* a main page whose benefits are n plain strings
page_with_benefits(n) ==
    PyDict([headline |-> PyStr("Introducing Acme"),
            benefits |-> PyList([i \in 1..n |-> PyStr("Benefit " \o ToString(i))])])

\* the funnel_data values handed to generate_email_sequence: funnels of
\* generate_funnel, hand-built mappings, and values that are no funnel
EmailFunnels ==
    { generate_funnel(NominalAnalysis, c) :
        c \in { w \in WizardCustomizations : w.v.num_upsells.v = 2 /\ w.v.num_downsells.v = 1 } }
    \cup { generate_funnel(NominalAnalysis, c) : c \in CallerCustomizations }
    \cup { PyDict([main_page |-> page_with_benefits(n),
                   upsells |-> PyList(<<>>),
                   customizations |-> PyDict([brand_name |-> PyStr("Acme")])]) : n \in 0..MaxBenefits }
    \cup { PyDict([main_page |-> page_with_benefits(1), upsells |-> PyList(<<>>)]),
           PyDict([main_page |-> page_with_benefits(1), upsells |-> PyList(<<>>),
                   customizations |-> PyNone]),
           PyDict([main_page |-> PyDict([benefits |-> PyDict([speed |-> PyStr("Fast")])]),
                   customizations |-> PyEmptyDict]),
           PyNone,
           PyList(<<>>) }

EmailParams ==
    { PyNone,
      PyDict([num_emails |-> PyInt(5), sequence_type |-> PyStr("nurture"), email_style |-> PyStr("formal")]),
      PyDict([num_emails |-> PyInt(MaxEmailsRequested + 5)]),
      PyDict([num_emails |-> PyInt(MaxEmailsRequested)]),
      PyDict([num_emails |-> PyInt(-1)]),
      PyDict([num_emails |-> PyNone]) }

\* the projects handed to create_zip_export: a funnel of generate_funnel and either
\* no email sequence or one generate_email_sequence returned for that funnel
export_project(customizations, service, with_emails) ==
    LET funnel_data == generate_funnel(NominalAnalysis, customizations)
    IN  [t |-> "Project", id |-> 1, name |-> "Demo", url |-> GoodUrl,
         status |-> IF with_emails THEN "completed" ELSE "funnel_generated",
         analysis |-> json_dumps(NominalAnalysis),
         funnel_data |-> json_dumps(funnel_data),
         email_sequence |-> IF with_emails
                            THEN json_dumps(generate_email_sequence(funnel_data, PyNone, service).value)
                            ELSE PyNone]

ExportCustomizations == { w \in WizardCustomizations : w.v.brand_name.t = "str" }

\* one call is made, from the state nothing has run in
Idle == last.op = "start"

\* the page records handed to analyze_page: what scrape_url returns for GoodUrl, a
\* record without title, and values that are no record
AnalyzePages == { scrape_url(GoodUrl), PyEmptyDict, PyNone, PyList(<<>>) }

CallAnalyzePage ==
    /\ Idle
    /\ \E page_data \in AnalyzePages, url \in {GoodUrl, "https://shop.test"} :
        /\ last' = [op |-> "analyze_page", page_data |-> page_data, url |-> url,
                    ret |-> analyze_page(page_data, url)]
        /\ UNCHANGED projects
    /\ UNCHANGED <<sessions, visit>>

\* the analyses handed to generate_copy: the two analyze_page returns, an empty
\* mapping, mappings with a null field or a null list item, and values that are
\* no mapping
CopyAnalyses ==
    { NominalAnalysis,
      analyze_page(PyNone, GoodUrl),
      PyEmptyDict,
      PyDict([product_type |-> PyNone]),
      PyDict([target_audience |-> PyNone]),
      PyDict([pain_points |-> PyList(<<PyNone>>)]),
      PyDict([pain_points |-> PyList(<<PyStr("Frustration with inconsistent results"), PyInt(2)>>)]),
      PyNone,
      PyStr("analysis") }

\* ... and the customizations: none, mappings with and without the options, with
\* null or numeric values, and values that are no mapping
CopyCustomizations ==
    { PyNone,
      PyEmptyDict,
      PyDict([brand_name |-> PyStr("Acme"), unique_angle |-> PyStr(""),
              target_audience |-> PyStr("Busy Founders")]),
      PyDict([brand_name |-> PyNone, unique_angle |-> PyNone, target_audience |-> PyNone]),
      PyDict([brand_name |-> PyInt(5)]),
      PyDict([target_audience |-> PyInt(7)]),
      PyList(<<>>),
      PyStr("customizations") }

CallGenerateCopy ==
    /\ Idle
    /\ \E analysis \in CopyAnalyses, customizations \in CopyCustomizations :
        /\ last' = [op |-> "generate_copy", analysis |-> analysis,
                    customizations |-> customizations,
                    ret |-> generate_copy(analysis, customizations)]
        /\ UNCHANGED projects
    /\ UNCHANGED <<sessions, visit>>

CallGenerateUpsell ==
    /\ Idle
    /\ \E main_product_info \in ProductInfos, upsell_type \in {"upsell", "downsell"},
       position \in 1..MaxPosition :
        /\ last' = [op |-> "generate_upsell", main_product_info |-> main_product_info,
                    upsell_type |-> upsell_type, position |-> position,
                    ret |-> generate_upsell(main_product_info, upsell_type, position)]
        /\ UNCHANGED projects
    /\ UNCHANGED <<sessions, visit>>

CallDesignFunnelFlow ==
    /\ Idle
    /\ \E num_upsells \in 0..MaxOffers, num_downsells \in 0..MaxOffers :
        LET info == PyDict([product_type |-> PyStr("Digital Course & Membership"),
                            brand_name |-> PyStr("Acme")])
            upsells == offers(info, "upsell", num_upsells)
            downsells == offers(info, "downsell", num_downsells)
        IN  /\ last' = [op |-> "design_funnel_flow",
                        upsells |-> upsells, downsells |-> downsells,
                        ret |-> design_funnel_flow(PyEmptyDict, upsells, downsells)]
            /\ UNCHANGED projects
    /\ UNCHANGED <<sessions, visit>>

CallGenerateFunnel ==
    /\ Idle
    /\ \E customizations \in WizardCustomizations \cup CallerCustomizations :
        /\ last' = [op |-> "generate_funnel", analysis |-> NominalAnalysis,
                    customizations |-> customizations,
                    ret |-> generate_funnel(NominalAnalysis, customizations)]
        /\ UNCHANGED projects
    /\ UNCHANGED <<sessions, visit>>

CallGenerateEmailSequence ==
    /\ Idle
    /\ \E funnel_data \in EmailFunnels, params \in EmailParams, service \in ServiceOutcomes :
        LET result == generate_email_sequence(funnel_data, params, service)
        IN  /\ last' = [op |-> "generate_email_sequence", funnel_data |-> funnel_data,
                        params |-> params, service |-> service,
                        raised |-> result.raised, requests |-> result.requests,
                        ret |-> result.value]
            /\ UNCHANGED projects
    /\ UNCHANGED <<sessions, visit>>

CallCreateZipExport ==
    /\ Idle
    /\ \E customizations \in ExportCustomizations, service \in ServiceOutcomes,
       with_emails \in BOOLEAN, templates \in TemplateSets :
        LET project == export_project(customizations, service, with_emails)
            zip == create_zip_export(project, templates)
        IN  /\ last' = [op |-> "create_zip_export", project |-> project, templates |-> templates,
                        raised |-> zip.raised, opened |-> zip.opened, entries |-> zip.entries]
            /\ UNCHANGED projects
    /\ UNCHANGED <<sessions, visit>>

NextCalls ==
    \/ CallAnalyzePage
    \/ CallGenerateCopy
    \/ CallGenerateUpsell
    \/ CallDesignFunnelFlow
    \/ CallGenerateFunnel
    \/ CallGenerateEmailSequence
    \/ CallCreateZipExport

SpecCalls == Init /\ [][NextCalls]_vars

\* ------------------------------------------------------------------------
\* Two requests on one project at once.  A request loads the row (get_or_404),
\* computes from what it loaded, assigns columns of its own copy and commits;
\* the handlers take no lock and check no version, so another request may
\* load or commit between the load and the commit.
\* ------------------------------------------------------------------------
PersistedFields == {"status", "funnel_data", "email_sequence"}

NoColumns == [c \in {} |-> PyNone]

\* what create_funnel does with the row it loaded: the columns it assigns (none
\* when it faults) and what it answers
funnel_request(project, form) ==
    LET num_upsells == dict_get(form, "num_upsells", PyInt(DefaultNumOffers))
        num_downsells == dict_get(form, "num_downsells", PyInt(DefaultNumOffers))
        error == IF ~int_parses(num_upsells) THEN int_error(num_upsells)
                 ELSE IF ~int_parses(num_downsells) THEN int_error(num_downsells)
                 ELSE IF ~json_parses(project.analysis) THEN json_loads_error(project.analysis)
                 ELSE ""
    IN  IF error # ""
        THEN [assigned |-> NoColumns, location |-> "funnel_editor",
              flash |-> Flash("Error generating funnel: " \o error, "danger")]
        ELSE LET customizations == PyDict([
                     brand_name |-> dict_get(form, "brand_name", PyNone),
                     unique_angle |-> dict_get(form, "unique_angle", PyNone),
                     target_audience |-> dict_get(form, "target_audience", PyNone),
                     num_upsells |-> PyInt(int_value(num_upsells)),
                     num_downsells |-> PyInt(int_value(num_downsells))
                 ])
                 saved == save_funnel(project, generate_funnel(json_loads(project.analysis), customizations))
             IN  [assigned |-> [c \in {"funnel_data", "status"} |-> saved[c]],
                  location |-> "email_sequence", flash |-> NoFlash]

\* what create_email_sequence does with the row it loaded
email_request(project, form, service) ==
    LET num_emails == dict_get(form, "num_emails", PyInt(DefaultNumEmails))
        params == PyDict([
            num_emails |-> IF int_parses(num_emails) THEN PyInt(int_value(num_emails)) ELSE PyNone,
            sequence_type |-> dict_get(form, "sequence_type", PyStr("sales")),
            email_style |-> dict_get(form, "email_style", PyStr("conversational"))
        ])
        early == IF ~int_parses(num_emails) THEN int_error(num_emails)
                 ELSE IF ~json_parses(project.funnel_data) THEN json_loads_error(project.funnel_data)
                 ELSE ""
        result == IF early # "" THEN [raised |-> early, requests |-> <<>>, value |-> PyNone]
                  ELSE generate_email_sequence(json_loads(project.funnel_data), params, service)
    IN  IF result.raised # ""
        THEN [assigned |-> NoColumns, location |-> "email_sequence",
              flash |-> Flash("Error generating email sequence: " \o result.raised, "danger")]
        ELSE LET saved == save_email_sequence(project, result.value)
             IN  [assigned |-> [c \in {"email_sequence", "status"} |-> saved[c]],
                  location |-> "export", flash |-> NoFlash]

handle_request(project, request) ==
    IF request.op = "create_funnel"
    THEN funnel_request(project, request.form)
    ELSE email_request(project, request.form, request.service)

\* the columns of an assignment whose value differs from the loaded one
changed_columns(loaded, assigned) ==
    [c \in { k \in DOMAIN assigned : assigned[k] # loaded[k] } |-> assigned[c]]

\* the column sets a commit may write: every assigned column, or only those
\* whose value differs from the loaded row (the unit of work decides)
commit_choices(loaded, assigned) == { assigned, changed_columns(loaded, assigned) }

\* a commit that writes the request's whole copy of the row
update_loaded_row(row, loaded, columns) ==
    [c \in DOMAIN row |-> IF c \in DOMAIN columns THEN columns[c] ELSE loaded[c]]

\* the row after a commit: the written columns change, the others stay as the
\* table holds them
update_columns(row, loaded, columns) ==
    [c \in DOMAIN row |-> IF c \in DOMAIN columns THEN columns[c] ELSE row[c]]

\* the wizard requests sent at once to project 1
ConcurrentRequests ==
    { [op |-> "create_funnel", project_id |-> 1, form |-> form] :
        form \in { f \in FunnelForms : int_parses(dict_get(f, "num_upsells", PyInt(DefaultNumOffers))) } }
    \cup
    { [op |-> "create_email_sequence", project_id |-> 1, form |-> form, service |-> service] :
        form \in { f \in EmailForms : int_parses(dict_get(f, "num_emails", PyInt(DefaultNumEmails))) },
        service \in { s \in WizardServiceOutcomes : s.kind # "malformed" } }

\* project 1 as the wizard leaves it after its second and after its third step
ConcurrentRows ==
    LET analyzed == new_project(1, "Demo", GoodUrl, analyze_page(scrape_url(GoodUrl), GoodUrl))
        with_funnel(form) == update_columns(analyzed, analyzed, funnel_request(analyzed, form).assigned)
        with_emails(row, request) ==
            update_columns(row, row, email_request(row, request.form, request.service).assigned)
        funnels == { with_funnel(request.form) :
                       request \in { r \in ConcurrentRequests : r.op = "create_funnel" } }
    IN  funnels \cup { with_emails(row, request) :
                         row \in funnels,
                         request \in { r \in ConcurrentRequests : r.op = "create_email_sequence" } }

InitConcurrent ==
    /\ \E row \in ConcurrentRows : projects = [i \in ProjectIds |-> IF i = 1 THEN row ELSE PyNone]
    /\ last = [op |-> "start"]
    /\ sessions = [slot \in Sessions |-> NoSession]
    /\ visit = NoVisit

\* a request up to its commit: get_or_404 gives it its own copy of the row, it
\* computes from that copy and assigns the columns on it (the requests take
\* the slots in the order they arrive)
LoadRequest ==
    \E slot \in Sessions, request \in ConcurrentRequests :
        /\ sessions[slot].phase = "idle"
        /\ \A earlier \in 1..(slot - 1) : sessions[earlier].phase # "idle"
        /\ ~not_found(request.project_id)
        /\ LET loaded == projects[request.project_id]
               outcome == handle_request(loaded, request)
           IN  sessions' = [sessions EXCEPT ![slot] =
                   [phase |-> "loaded", request |-> request, loaded |-> loaded,
                    assigned |-> outcome.assigned,
                    location |-> outcome.location, flash |-> outcome.flash]]
        /\ UNCHANGED <<projects, last, visit>>

\* db.session.commit() and the answer of the request; a request that faulted
\* has assigned nothing and only answers
CommitRequest ==
    \E slot \in Sessions :
        /\ sessions[slot].phase = "loaded"
        /\ LET session == sessions[slot]
               row == projects[session.request.project_id]
           IN  \E columns \in commit_choices(session.loaded, session.assigned) :
                   /\ projects' = [projects EXCEPT ![session.request.project_id] =
                                      update_columns(row, session.loaded, columns)]
                   /\ last' = [op |-> session.request.op, project_id |-> session.request.project_id,
                               http |-> 302, location |-> session.location, flash |-> session.flash]
                   /\ sessions' = [sessions EXCEPT ![slot] =
                          [phase |-> "done", request |-> session.request, loaded |-> session.loaded,
                           committed |-> columns,
                           overlapped |-> row # session.loaded,
                           order |-> 1 + Cardinality({ s \in Sessions : sessions[s].phase = "done" }),
                           location |-> session.location, flash |-> session.flash]]
        /\ UNCHANGED visit

NextConcurrent ==
    \/ LoadRequest
    \/ CommitRequest

SpecConcurrent == InitConcurrent /\ [][NextConcurrent]_vars

\* ------------------------------------------------------------------------
\* A visitor of the exported funnel: each page's accept and decline buttons carry
\* the actions of the page's node in the flow embedded in funnel.js, and
\* handleButtonClick turns the action of the button pressed into the next page.
\* ------------------------------------------------------------------------
\* the ids an action can name
PageIds ==
    {"main", "thank_you"}
    \cup { "upsell_" \o ToString(i) : i \in 1..(MaxOffers + 2) }
    \cup { "downsell_" \o ToString(i) : i \in 1..(MaxOffers + 2) }

\* handleButtonClick(action): the page it navigates to, "" when it returns
\* without navigating
handleButtonClick(action) ==
    IF action = "to_thank_you" THEN "thank_you.html"
    ELSE IF action = "exit" THEN ""
    ELSE (CHOOSE pageId \in PageIds : action = "to_" \o pageId) \o ".html"

\* the file create_zip_export writes for a node of the flow
page_of(node) == IF node.v.type.v = "main" THEN "index.html" ELSE node.v.id.v \o ".html"

\* the nodes of the flow shown by a page
nodes_of_page(flow, page) == { k \in 1..Len(flow.v) : page_of(flow.v[k]) = page }

\* the visitor opens index.html of a funnel of U upsells and D downsells
InitWalk ==
    /\ projects = [i \in ProjectIds |-> PyNone]
    /\ last = [op |-> "start"]
    /\ sessions = [slot \in Sessions |-> NoSession]
    /\ \E num_upsells \in 0..MaxOffers, num_downsells \in 0..MaxOffers :
        LET info == PyDict([product_type |-> PyStr("Digital Course & Membership"),
                            brand_name |-> PyStr("Acme")])
            upsells == offers(info, "upsell", num_upsells)
            downsells == offers(info, "downsell", num_downsells)
        IN  visit = [phase |-> "walking",
                     flow |-> design_funnel_flow(PyEmptyDict, upsells, downsells),
                     upsells |-> num_upsells, downsells |-> num_downsells,
                     path |-> <<"index.html">>, clicks |-> <<>>]

\* the visitor presses the accept or the decline button of the page shown; a
\* page that is not in the funnel has no button to press
Click ==
    \E kind \in {"accept", "decline"} :
        /\ visit.phase = "walking"
        /\ LET page == visit.path[Len(visit.path)]
               node == visit.flow.v[CHOOSE k \in nodes_of_page(visit.flow, page) : TRUE]
               action == IF kind = "accept" THEN node.v.accept_action.v ELSE node.v.decline_action.v
               nextPage == handleButtonClick(action)
           IN  visit' = IF nextPage = ""
                        THEN [visit EXCEPT !.phase = "left", !.clicks = Append(@, kind)]
                        ELSE [visit EXCEPT
                                !.phase = IF nodes_of_page(visit.flow, nextPage) = {}
                                          THEN "lost" ELSE "walking",
                                !.path = Append(@, nextPage),
                                !.clicks = Append(@, kind)]
        /\ UNCHANGED <<projects, last, sessions>>

NextWalk == Click

SpecWalk == InitWalk /\ [][NextWalk]_vars

\* ------------------------------------------------------------------------
\* Properties
\* ------------------------------------------------------------------------
\* the ids of the nodes of a flow, and the nodes of one type
flow_ids(flow) == { flow.v[i].v.id.v : i \in 1..Len(flow.v) }
flow_nodes_of(flow, type) == { i \in 1..Len(flow.v) : flow.v[i].v.type.v = type }

\* an action leaves the funnel or is "to_" followed by the id of a node of the flow
action_resolves(flow, action) ==
    \/ action = "exit"
    \/ \E id \in flow_ids(flow) : action = "to_" \o id

\* C1: for every U >= 1 and D >= 1 the flow graph design_funnel_flow returns has
\* exactly U upsell nodes, D downsell nodes, one main node and one thank_you node,
\* its ids are pairwise distinct, and every to_X action of every node names the id
\* of a node of the same graph.
C1_FlowGraphClosed ==
    (/\ last.op = "design_funnel_flow"
     /\ Len(last.upsells.v) >= 1
     /\ Len(last.downsells.v) >= 1)
    => LET flow == last.ret
       IN  /\ Cardinality(flow_nodes_of(flow, "upsell")) = Len(last.upsells.v)
           /\ Cardinality(flow_nodes_of(flow, "downsell")) = Len(last.downsells.v)
           /\ Cardinality(flow_nodes_of(flow, "main")) = 1
           /\ Cardinality(flow_nodes_of(flow, "thank_you")) = 1
           /\ Cardinality(flow_ids(flow)) = Len(flow.v)
           /\ \A i \in 1..Len(flow.v) :
                /\ action_resolves(flow, flow.v[i].v.accept_action.v)
                /\ action_resolves(flow, flow.v[i].v.decline_action.v)

\* the order of the status values
status_rank(status) ==
    CASE status = "new" -> 0
      [] status = "analyzed" -> 1
      [] status = "funnel_generated" -> 2
      [] status = "completed" -> 3

present(row) == row.t = "Project"

\* C2 as stated: the status of a project only moves forward along
\* new -> analyzed -> funnel_generated -> completed, one stage at a time; no route
\* moves it backwards and none skips a stage.
C2_StatusOnlyForward ==
    [][\A id \in ProjectIds :
          (present(projects[id]) /\ present(projects'[id]))
          => \/ status_rank(projects'[id].status) = status_rank(projects[id].status)
             \/ status_rank(projects'[id].status) = status_rank(projects[id].status) + 1]_vars

\* C2 amended: a row is created with status analyzed; after that its status never
\* skips a stage, and the only change that is not one stage forward is create_funnel
\* run again on a completed project, which sets it back to funnel_generated.
C2_StatusNeverSkips ==
    [][\A id \in ProjectIds :
          /\ (~present(projects[id]) /\ present(projects'[id]))
             => projects'[id].status = "analyzed"
          /\ (present(projects[id]) /\ present(projects'[id]))
             => \/ projects'[id].status = projects[id].status
                \/ /\ projects[id].status = "analyzed"
                   /\ projects'[id].status = "funnel_generated"
                   /\ last'.op = "create_funnel"
                \/ /\ projects[id].status = "funnel_generated"
                   /\ projects'[id].status = "completed"
                   /\ last'.op = "create_email_sequence"
                \/ /\ projects[id].status = "completed"
                   /\ projects'[id].status = "funnel_generated"
                   /\ last'.op = "create_funnel"]_vars

\* a completed project whose funnel was generated again
C2_Witness ==
    /\ last.op = "create_funnel"
    /\ last.location = "email_sequence"
    /\ present(projects[last.project_id])
    /\ projects[last.project_id].status = "funnel_generated"
    /\ projects[last.project_id].email_sequence.t = "str"

\* the request reached the service and the service raised or answered text that
\* is not JSON
service_faulted ==
    /\ last.op = "generate_email_sequence"
    /\ last.requests # <<>>
    /\ last.service.kind \in {"raises", "not_json"}

\* C3: when the call to the text-generation service inside generate_email_sequence
\* faults (it raises, or its answer is not parseable JSON), generate_email_sequence
\* returns a sequence with num_emails = 3, exactly three emails and 'error' set,
\* and no exception reaches the caller.
C3_ServiceFaultFallsBack ==
    service_faulted
    => /\ last.raised = ""
       /\ last.ret.t = "dict"
       /\ "error" \in DOMAIN last.ret.v
       /\ last.ret.v.error.t = "str"
       /\ last.ret.v.num_emails = PyInt(3)
       /\ last.ret.v.emails.t = "list"
       /\ Len(last.ret.v.emails.v) = 3

\* the service answered text that is not JSON and the fallback came back
C3_Witness ==
    /\ service_faulted
    /\ last.service.kind = "not_json"
    /\ last.raised = ""
    /\ last.ret.v.error = PyStr(json_loads_error(last.service.content))

\* the names of the entries of an archive
entry_names(entries) == { entries[i].name : i \in 1..Len(entries) }

\* the names the export layout gives an archive of U upsells, D downsells and,
\* if it has an email sequence, N emails
layout(U, D, with_emails, N) ==
    {"index.html", "style.css", "funnel.js", "thank_you.html", "README.txt"}
    \cup { "upsell_" \o ToString(i) \o ".html" : i \in 1..U }
    \cup { "downsell_" \o ToString(i) \o ".html" : i \in 1..D }
    \cup IF with_emails
         THEN {"emails/README.txt"} \cup { "emails/email_" \o ToString(i) \o ".txt" : i \in 1..N }
         ELSE {}

C5_ExportRaisesOnlyWithoutFunnel ==
    (last.op = "download_project" /\ last.http = 200)
    => LET project == projects[last.project_id]
       IN  /\ (last.error # "") <=> ~truthy(project.funnel_data)
           /\ ~truthy(project.funnel_data) => ~last.opened
           /\ truthy(project.funnel_data)
              => /\ last.success
                 /\ last.opened
                 /\ {"index.html", "style.css", "funnel.js", "thank_you.html", "README.txt"}
                        \subseteq entry_names(last.entries)

\* the URL of a request is missing, or has no scheme or no host
unscrapable(url) ==
    \/ url.t = "NoneType"
    \/ url.v = ""
    \/ urlparse(url.v).scheme = ""
    \/ urlparse(url.v).netloc = ""

\* C6: a failed scrape aborts the request without changing persisted state: when
\* analyze is called with a missing URL, or with a URL that has no scheme or no
\* host (scrape_url returns None), no Project row is created and every existing
\* project's status and blobs are unchanged; the user is sent back with an error.
C6_FailedScrapeChangesNothing ==
    [][(last'.op = "analyze" /\ unscrapable(last'.url))
       => /\ projects' = projects
          /\ last'.location = "index"
          /\ last'.flash.category = "danger"]_vars

\* analyze was refused a URL without host while a completed project is stored
C6_Witness ==
    /\ last.op = "analyze"
    /\ last.url = PyStr("http:///offer")
    /\ last.location = "index"
    /\ \E id \in ProjectIds : present(projects[id]) /\ projects[id].status = "completed"

\* create_email_sequence asked the service and the service raised
collaborator_faulted ==
    /\ last.op = "create_email_sequence"
    /\ last.http = 302
    /\ last.service = "raises"

\* C7 as stated: when the text-generation service faults during
\* create_email_sequence the pipeline does not advance: the status stays
\* funnel_generated and the fault is shown to the user.
C7_FaultStopsPipeline ==
    collaborator_faulted
    => /\ projects[last.project_id].status = "funnel_generated"
       /\ last.flash.category = "danger"

\* C7 amended: when the text-generation service faults during
\* create_email_sequence, generate_email_sequence absorbs the fault: the 3-email
\* fallback with 'error' set is stored as the project's email sequence, the status
\* becomes completed, and the user is redirected to the export page with no message.
C7_FaultIsAbsorbed ==
    collaborator_faulted
    => LET project == projects[last.project_id]
       IN  /\ present(project)
           /\ project.status = "completed"
           /\ json_parses(project.email_sequence)
           /\ "error" \in DOMAIN json_loads(project.email_sequence).v
           /\ json_loads(project.email_sequence).v.num_emails = PyInt(3)
           /\ last.location = "export"
           /\ last.flash = NoFlash

\* the service raised and the project is completed with the fallback stored
C7_Witness ==
    /\ collaborator_faulted
    /\ projects[last.project_id].status = "completed"
    /\ json_loads(projects[last.project_id].email_sequence).v.error = PyStr("Connection error.")

\* the funnel handed to generate_email_sequence came from generate_funnel and its
\* main page copy was generated without fault; the parameters are absent or well-formed
nominal_funnel_call ==
    /\ last.op = "generate_email_sequence"
    /\ last.funnel_data.t = "dict"
    /\ "funnel_flow" \in DOMAIN last.funnel_data.v
    /\ "error" \notin DOMAIN last.funnel_data.v.main_page.v
    /\ \/ last.params.t = "NoneType"
       \/ last.params.v.num_emails.t = "int"

\* C8: for every funnel generate_funnel produces from a nominal analysis (main page
\* copy generated without fault), generate_email_sequence issues exactly one request
\* to the text-generation service, its prompt embedding up to 5 benefits of the main
\* page, and returns the service's sequence, not the fallback, when the service
\* answers a well-formed object.
C8_NominalFunnelAsksOnce ==
    nominal_funnel_call
    => /\ Len(last.requests) = 1
       /\ last.service.kind = "answers"
          => /\ last.raised = ""
             /\ "error" \notin DOMAIN last.ret.v
             /\ last.ret.v.emails = json_loads(last.service.content).v.emails

\* the price of the template variant of a kind
table_price(kind, variant) ==
    IF kind = "upsell"
    THEN CASE variant = 1 -> 297 [] variant = 2 -> 397 [] variant = 3 -> 997
    ELSE CASE variant = 1 -> 197 [] variant = 2 -> 147 [] variant = 3 -> 97

\* C9: generate_upsell, given a mapping as main_product_info, selects its template
\* by (kind, min(position, 3)): for kind upsell or downsell and every position >= 1
\* the offer has offer_type = kind, position = the given position, price
\* 297/397/997 (upsell) or 197/147/97 (downsell) for min(position, 3) = 1/2/3, and
\* for position > 3 every field but 'position' equals that of the position-3 offer
\* of the same kind.
C9_TemplateByKindAndPosition ==
    (/\ last.op = "generate_upsell"
     /\ last.main_product_info.t = "dict"
     /\ last.position >= 1)
    => LET offer == last.ret.v
           third == generate_upsell(last.main_product_info, last.upsell_type, 3).v
       IN  /\ offer.offer_type = PyStr(last.upsell_type)
           /\ offer.position = PyInt(last.position)
           /\ offer.price = PyInt(table_price(last.upsell_type, min(last.position, 3)))
           /\ last.position > 3
              => /\ DOMAIN offer = DOMAIN third
                 /\ \A field \in DOMAIN offer \ {"position"} : offer[field] = third[field]

\* a downsell asked at a position beyond 3
C9_Witness ==
    /\ last.op = "generate_upsell"
    /\ last.main_product_info.t = "dict"
    /\ last.upsell_type = "downsell"
    /\ last.position = MaxPosition
    /\ last.ret.v.price = PyInt(97)

\* the offers of a list are n offers of one kind at positions 1..n, in order
offers_in_order(list, kind, n) ==
    /\ list.t = "list"
    /\ Len(list.v) = n
    /\ \A i \in 1..n :
         /\ list.v[i].v.offer_type = PyStr(kind)
         /\ list.v[i].v.position = PyInt(i)

\* the count a customizations mapping asks for under a key, 10 when the key is absent
asked_count(customizations, key) ==
    IF key \in DOMAIN customizations.v THEN customizations.v[key].v ELSE 10

\* C11: generate_funnel returns a funnel whose 'upsells' are exactly num_upsells
\* offers of type upsell at positions 1..num_upsells in order and whose 'downsells'
\* are exactly num_downsells offers of type downsell at positions 1..num_downsells
\* in order; each count is 10 when its option is absent from customizations, and
\* funnel_flow is the flow built from exactly those two lists.
C11_FunnelOfferCounts ==
    last.op = "generate_funnel"
    => LET funnel == last.ret.v
       IN  /\ offers_in_order(funnel.upsells, "upsell",
                              asked_count(last.customizations, "num_upsells"))
           /\ offers_in_order(funnel.downsells, "downsell",
                              asked_count(last.customizations, "num_downsells"))
           /\ funnel.funnel_flow
                = design_funnel_flow(funnel.main_page, funnel.upsells, funnel.downsells)

\* customizations without counts: ten upsells and ten downsells
C11_Witness ==
    /\ last.op = "generate_funnel"
    /\ "num_upsells" \notin DOMAIN last.customizations.v
    /\ "num_downsells" \notin DOMAIN last.customizations.v
    /\ Len(last.ret.v.upsells.v) = 10
    /\ last.ret.v.downsells.v[10].v.position = PyInt(10)

\* the fields of an Analysis
AnalysisFields ==
    {"url", "title", "product_type", "main_hook", "target_audience", "key_benefits",
     "pain_points", "unique_selling_points", "pricing_strategy", "cta_strategy",
     "persuasion_techniques", "structure_analysis", "content_tone",
     "suggested_improvements"}

\* C12: analyze_page never raises and always returns a total Analysis: on the
\* nominal path and on the fault path (e.g. the scraped page is null) every
\* Analysis field is present and non-null, and on the fault path 'error' is also set.
C12_AnalysisIsTotal ==
    last.op = "analyze_page"
    => /\ last.ret.t = "dict"
       /\ \A field \in AnalysisFields :
            /\ field \in DOMAIN last.ret.v
            /\ last.ret.v[field].t # "NoneType"
       /\ last.page_data.t # "dict" => "error" \in DOMAIN last.ret.v

\* the thirteen fields of a MainPageCopy: the strings and the sequences
CopyStrings ==
    {"headline", "subheadline", "intro", "problem_statement", "solution_intro",
     "pricing_section", "guarantee", "cta_primary", "cta_secondary"}
CopySequences == {"benefits", "features", "social_proof", "faq"}

\* an input generate_copy cannot build the copy from: an analysis or customizations
\* that is no mapping, or a target audience that is no string
copy_input_faulty ==
    \/ last.analysis.t # "dict"
    \/ last.customizations.t \notin {"dict", "NoneType"}
    \/ /\ last.customizations.t = "dict"
       /\ "target_audience" \in DOMAIN last.customizations.v
       /\ last.customizations.v.target_audience.t # "str"

\* C13: generate_copy is total: for every analysis and customizations value
\* (including fields or values that are null or of the wrong type) it returns a
\* MainPageCopy with all thirteen copy fields and never raises; on an internal
\* fault the record carries 'error', placeholder strings and empty benefits,
\* features, social_proof and faq.
C13_CopyIsTotal ==
    last.op = "generate_copy"
    => /\ last.ret.t = "dict"
       /\ \A field \in CopyStrings :
            field \in DOMAIN last.ret.v /\ last.ret.v[field].t = "str"
       /\ \A field \in CopySequences :
            field \in DOMAIN last.ret.v /\ last.ret.v[field].t = "list"
       /\ copy_input_faulty => "error" \in DOMAIN last.ret.v
       /\ "error" \in DOMAIN last.ret.v
          => /\ last.ret.v.error.t = "str"
             /\ \A field \in CopySequences : last.ret.v[field] = PyList(<<>>)
             /\ last.ret.v.headline = PyStr("Could not generate headline")

\* a wizard-style customizations mapping with a null target audience: the fallback copy
C13_Witness ==
    /\ last.op = "generate_copy"
    /\ last.analysis.t = "dict"
    /\ last.customizations.t = "dict"
    /\ "target_audience" \in DOMAIN last.customizations.v
    /\ last.customizations.v.target_audience.t = "NoneType"
    /\ last.ret.v.error = PyStr("'NoneType' object has no attribute 'lower'")
    /\ last.ret.v.faq = PyList(<<>>)

\* the options a funnel form left out
omitted(form) == {"brand_name", "unique_angle", "target_audience"} \ DOMAIN form.v

\* C14: when a customization option is not provided its default is used: in a
\* funnel generated through create_funnel from a form that omits brand_name,
\* unique_angle or target_audience, the main page copy is the nominal copy (no
\* 'error' field) built with brand name "Our Product", empty unique angle and the
\* analysis's target_audience respectively, and the offers use brand name
\* "Our Product".
C14_OmittedOptionsUseDefaults ==
    (/\ last.op = "create_funnel"
     /\ last.location = "email_sequence"
     /\ omitted(last.form) # {})
    => LET project == projects[last.project_id]
           analysis == json_loads(project.analysis)
           funnel == json_loads(project.funnel_data).v
           given == [k \in DOMAIN last.form.v \ {"num_upsells", "num_downsells"} |-> last.form.v[k]]
       IN  /\ "error" \notin DOMAIN funnel.main_page.v
           /\ funnel.main_page = generate_copy(analysis, PyDict(given))
           /\ "brand_name" \in omitted(last.form)
              => \A i \in 1..Len(funnel.upsells.v) :
                   funnel.upsells.v[i]
                     = generate_upsell(
                         PyDict([product_type |-> analysis.v.product_type,
                                 brand_name |-> PyStr("Our Product")]),
                         "upsell", i)

\* the number of emails the parameters of a call ask for, 10 when they name none
asked_emails(params) ==
    IF params.t = "dict" /\ "num_emails" \in DOMAIN params.v
    THEN params.v.num_emails.v
    ELSE 10

\* C15: the number of emails generate_email_sequence requests from the
\* text-generation service is min(params.num_emails, 20), params.num_emails
\* defaulting to 10 when absent, so the requested count never exceeds 20 for any
\* integer input.
C15_RequestedEmailsClamped ==
    (last.op = "generate_email_sequence" /\ last.requests # <<>>)
    => LET asked == asked_emails(last.params)
       IN  /\ Len(last.requests) = 1
           /\ last.requests[1].num_emails = IF asked < 20 THEN asked ELSE 20
           /\ last.requests[1].num_emails <= 20

\* 25 emails asked for, 20 requested
C15_Witness ==
    /\ last.op = "generate_email_sequence"
    /\ last.requests # <<>>
    /\ last.params.t = "dict"
    /\ last.params.v.num_emails = PyInt(25)
    /\ last.requests[1].num_emails = 20

\* the service was asked and answered a JSON object that has no 'emails'
answer_lacks_emails ==
    /\ last.op = "generate_email_sequence"
    /\ last.requests # <<>>
    /\ "content" \in DOMAIN last.service
    /\ json_parses(last.service.content)
    /\ json_loads(last.service.content).t = "dict"
    /\ "emails" \notin DOMAIN json_loads(last.service.content).v

\* C16: when the text-generation service answers a well-formed JSON object that
\* lacks requested fields (in particular has no 'emails' list),
\* generate_email_sequence returns the fixed 3-email fallback with 'error' set, not
\* the incomplete object.
C16_IncompleteAnswerFallsBack ==
    answer_lacks_emails
    => /\ last.raised = ""
       /\ "error" \in DOMAIN last.ret.v
       /\ last.ret.v.num_emails = PyInt(3)
       /\ "emails" \in DOMAIN last.ret.v
       /\ Len(last.ret.v.emails.v) = 3

\* C17: generate_email_sequence never raises to its caller: for every funnel_data
\* (including null, a value that is no mapping, or a mapping lacking
\* 'customizations') and every params value it returns an EmailSequence, which is
\* the 3-email fallback with 'error' set whenever a step faulted.
C17_EmailSequenceNeverRaises ==
    last.op = "generate_email_sequence"
    => /\ last.raised = ""
       /\ last.ret.t = "dict"
       /\ last.funnel_data.t # "dict"
          => /\ "error" \in DOMAIN last.ret.v
             /\ last.ret.v.num_emails = PyInt(3)
             /\ Len(last.ret.v.emails.v) = 3

\* the emails of the sequence stored with the exported project
exported_emails ==
    dict_get(json_loads(last.project.email_sequence), "emails", PyList(<<>>)).v

\* C19: every emails/email_i.txt entry create_zip_export writes has content exactly
\* 'Subject: ' followed by the email's subject, a blank line, and the email's body,
\* with no characters before 'Subject:' and none after the body.
C19_EmailEntryFormat ==
    (/\ last.op = "create_zip_export"
     /\ last.raised = ""
     /\ last.project.email_sequence.t = "str")
    => \A i \in 1..Len(exported_emails) :
         \A e \in 1..Len(last.entries) :
           last.entries[e].name = "emails/email_" \o ToString(i) \o ".txt"
           => last.entries[e].content.txt
                = "Subject: " \o exported_emails[i].v.subject.v
                  \o "\n\n" \o exported_emails[i].v.body.v

\* the nodes of a flow that carry an id
nodes_with_id(flow, id) == { k \in 1..Len(flow.v) : flow.v[k].v.id = PyStr(id) }

\* the flow has exactly one node of that id, with these two actions
node_acts(flow, id, accept, decline) ==
    /\ Cardinality(nodes_with_id(flow, id)) = 1
    /\ \A k \in nodes_with_id(flow, id) :
         /\ flow.v[k].v.accept_action = PyStr(accept)
         /\ flow.v[k].v.decline_action = PyStr(decline)

\* C20: in every flow design_funnel_flow builds from U >= 1 upsells, node upsell_i
\* (1 <= i <= U) has accept_action 'to_upsell_{i+1}' when i < U and 'to_thank_you'
\* when i = U, and decline_action 'to_downsell_i'; node main has accept_action
\* 'to_upsell_1' and decline_action 'exit'; node thank_you has both actions 'exit'.
C20_UpsellChain ==
    (last.op = "design_funnel_flow" /\ Len(last.upsells.v) >= 1)
    => LET U == Len(last.upsells.v)
       IN  /\ \A i \in 1..U :
                node_acts(last.ret, "upsell_" \o ToString(i),
                          IF i < U THEN "to_upsell_" \o ToString(i + 1) ELSE "to_thank_you",
                          "to_downsell_" \o ToString(i))
           /\ node_acts(last.ret, "main", "to_upsell_1", "exit")
           /\ node_acts(last.ret, "thank_you", "exit", "exit")

\* a flow of MaxOffers upsells and no downsell
C20_Witness ==
    /\ last.op = "design_funnel_flow"
    /\ Len(last.upsells.v) = MaxOffers
    /\ Len(last.downsells.v) = 0
    /\ node_acts(last.ret, "upsell_" \o ToString(MaxOffers), "to_thank_you",
                 "to_downsell_" \o ToString(MaxOffers))

\* the requests that committed, and among them those that wrote a column
done_sessions == { s \in Sessions : sessions[s].phase = "done" }
writers_of(column) == { s \in done_sessions : column \in DOMAIN sessions[s].committed }
last_writer_of(column) ==
    CHOOSE s \in writers_of(column) : \A other \in writers_of(column) : sessions[other].order <= sessions[s].order

\* C18: requests that write one project at once do not block or reject one
\* another (a request that loaded the row can always commit, and it is answered
\* as a request running alone is), and each persisted field holds the value of
\* the request that committed that field last
C18_LastCommitWins ==
    /\ (\E s \in Sessions : sessions[s].phase = "loaded") => ENABLED CommitRequest
    /\ \A s \in done_sessions : sessions[s].flash = NoFlash
    /\ \A column \in PersistedFields :
           writers_of(column) # {} =>
               projects[1][column] = sessions[last_writer_of(column)].committed[column]

\* two requests have committed, the later one on a row the earlier one had
\* changed since it was loaded, and they wrote different statuses
C18_Witness ==
    \E first \in done_sessions, second \in done_sessions :
        /\ sessions[first].order < sessions[second].order
        /\ sessions[second].overlapped
        /\ "status" \in DOMAIN sessions[first].committed
        /\ "status" \in DOMAIN sessions[second].committed
        /\ sessions[first].committed["status"] # sessions[second].committed["status"]
        /\ sessions[first].request.op # sessions[second].request.op

\* C21: in every flow design_funnel_flow builds, for all U >= 0 and D >= 0
\* (D > U included), node downsell_i (1 <= i <= D) has accept_action equal to
\* decline_action, and that target is 'to_upsell_{i+1}' when i < U and
\* 'to_thank_you' otherwise.
C21_DownsellTargets ==
    (last.op = "design_funnel_flow")
    => LET U == Len(last.upsells.v)
           D == Len(last.downsells.v)
       IN  \A i \in 1..D :
               LET target == IF i < U THEN "to_upsell_" \o ToString(i + 1) ELSE "to_thank_you"
               IN  node_acts(last.ret, "downsell_" \o ToString(i), target, target)

\* a flow with more downsells than upsells, whose downsells lead on to an upsell
\* up to index U - 1 and to thank_you from index U on
C21_Witness ==
    /\ last.op = "design_funnel_flow"
    /\ Len(last.upsells.v) = 2
    /\ Len(last.downsells.v) = MaxOffers
    /\ node_acts(last.ret, "downsell_1", "to_upsell_2", "to_upsell_2")
    /\ node_acts(last.ret, "downsell_2", "to_thank_you", "to_thank_you")
    /\ node_acts(last.ret, "downsell_" \o ToString(MaxOffers), "to_thank_you", "to_thank_you")

\* the actions of a flow that name no node of it, as <<node id, action key>>
dangling_actions(flow) ==
    { <<flow.v[k].v.id.v, "accept_action">> :
        k \in { j \in 1..Len(flow.v) : ~action_resolves(flow, flow.v[j].v.accept_action.v) } }
    \cup
    { <<flow.v[k].v.id.v, "decline_action">> :
        k \in { j \in 1..Len(flow.v) : ~action_resolves(flow, flow.v[j].v.decline_action.v) } }

\* C22: when the upsell list is empty, node main's accept_action is literally
\* 'to_upsell_1', and for every D >= 0 it is the only action of the whole flow
\* whose target is not the id of a node of the flow.
C22_OnlyMainDanglesWithoutUpsells ==
    (last.op = "design_funnel_flow" /\ Len(last.upsells.v) = 0)
    => /\ node_acts(last.ret, "main", "to_upsell_1", "exit")
       /\ dangling_actions(last.ret) = { <<"main", "accept_action">> }

\* a flow of no upsell and MaxOffers downsells, every downsell leading to thank_you
C22_Witness ==
    /\ last.op = "design_funnel_flow"
    /\ Len(last.upsells.v) = 0
    /\ Len(last.downsells.v) = MaxOffers
    /\ Len(last.ret.v) = MaxOffers + 2
    /\ <<"main", "accept_action">> \in dangling_actions(last.ret)

\* the pages of a walk are pairwise different
no_page_twice(path) == \A i \in 1..Len(path), j \in 1..Len(path) : path[i] = path[j] => i = j

\* C23: in every flow with U = D >= 1 a visitor starting at main, whatever they
\* accept or decline, never sees a page twice, always lands on a page of the
\* funnel, has left at the latest with choice 2U + 2, and has passed through
\* thank_you when they leave, unless they left by declining at main.
C23_WalksEndAtThankYou ==
    (/\ visit.phase # "none"
     /\ visit.upsells = visit.downsells
     /\ visit.upsells >= 1)
    => /\ no_page_twice(visit.path)
       /\ visit.phase # "lost"
       /\ Len(visit.clicks) <= 2 * visit.upsells + 2
       /\ visit.phase = "walking" => Len(visit.clicks) < 2 * visit.upsells + 2
       /\ (visit.phase = "left" /\ visit.clicks # <<"decline">>)
             => \E i \in 1..Len(visit.path) : visit.path[i] = "thank_you.html"

\* the longest walk of the largest funnel: every upsell declined, left from
\* thank_you with choice 2U + 2
C23_Witness ==
    /\ visit.phase = "left"
    /\ visit.upsells = MaxOffers
    /\ visit.downsells = MaxOffers
    /\ Len(visit.clicks) = 2 * MaxOffers + 2
    /\ visit.path[Len(visit.path)] = "thank_you.html"

\* C24: in every funnel generate_funnel returns, whatever num_upsells and
\* num_downsells are, funnel_flow has as many downsell nodes as upsell nodes.
C24_EqualLengthPaths ==
    (last.op = "generate_funnel")
    => Cardinality(flow_nodes_of(last.ret.v.funnel_flow, "downsell"))
         = Cardinality(flow_nodes_of(last.ret.v.funnel_flow, "upsell"))

\* C25: after delete_project(id) has committed (here id 1), every later
\* create_funnel, create_email_sequence or download_project request for that id
\* is answered not-found and changes no persisted state.
C25_DeletedStaysGone ==
    [][(/\ last'.op \in {"create_funnel", "create_email_sequence", "download_project"}
        /\ last'.project_id = 1)
       => (last'.http = 404 /\ projects' = projects)]_vars

\* a column holds NULL
is_null(value) == value.t = "NoneType"

\* C26: in every state the wizard requests reach, each persisted project has a
\* status among analyzed, funnel_generated, completed (never 'new') and a
\* non-null analysis; with status analyzed its funnel_data and email_sequence are
\* both null; with status funnel_generated or completed its funnel_data is
\* non-null; with status completed its email_sequence is non-null.
C26_RowShape ==
    \A id \in ProjectIds :
        present(projects[id])
        => LET row == projects[id]
           IN  /\ row.status \in {"analyzed", "funnel_generated", "completed"}
               /\ ~is_null(row.analysis)
               /\ row.status = "analyzed" => (is_null(row.funnel_data) /\ is_null(row.email_sequence))
               /\ row.status \in {"funnel_generated", "completed"} => ~is_null(row.funnel_data)
               /\ row.status = "completed" => ~is_null(row.email_sequence)

\* a project whose funnel was generated again after its emails: status
\* funnel_generated with an email sequence stored
C26_Witness ==
    \E id \in ProjectIds :
        /\ present(projects[id])
        /\ projects[id].status = "funnel_generated"
        /\ ~is_null(projects[id].funnel_data)
        /\ ~is_null(projects[id].email_sequence)
        /\ last.op = "create_funnel"

\* C27: under any interleaving of create_funnel and create_email_sequence
\* requests on one project, whenever the persisted status is completed the
\* persisted email_sequence was generated from the funnel_data that is persisted
\* now: the request that stored it had loaded that funnel_data.
C27_EmailsFromCurrentFunnel ==
    (/\ projects[1].status = "completed"
     /\ writers_of("email_sequence") # {})
    => sessions[last_writer_of("email_sequence")].loaded.funnel_data = projects[1].funnel_data

\* the flow embedded in the funnel.js of an archive
embedded_flow(entries) ==
    LET js == entries[CHOOSE k \in 1..Len(entries) : entries[k].name = "funnel.js"]
    IN  json_loads(js.content.funnelFlow)

\* the pages the navigation script opens for the actions of a flow
opened_pages(flow) ==
    { handleButtonClick(flow.v[k].v.accept_action.v) : k \in 1..Len(flow.v) }
    \cup { handleButtonClick(flow.v[k].v.decline_action.v) : k \in 1..Len(flow.v) }

\* C28: for every exported funnel with U >= 1 and D >= 1, every page the
\* exported navigation script can open is an entry of the same archive (for
\* each action 'to_X' of the flow embedded in funnel.js, 'X.html' is an entry),
\* and each node of the flow other than main has exactly one page '<id>.html'.
C28_NavigationStaysInArchive ==
    (/\ last.op = "create_zip_export"
     /\ last.raised = ""
     /\ Len(json_loads(last.project.funnel_data).v.upsells.v) >= 1
     /\ Len(json_loads(last.project.funnel_data).v.downsells.v) >= 1)
    => LET flow == embedded_flow(last.entries)
       IN  /\ \A page \in opened_pages(flow) \ {""} : page \in entry_names(last.entries)
           /\ \A k \in 1..Len(flow.v) :
                flow.v[k].v.type.v # "main"
                => Cardinality({ e \in 1..Len(last.entries) :
                                   last.entries[e].name = flow.v[k].v.id.v \o ".html" }) = 1

\* the page shown at step i of a walk is the page of downsell k
shows_downsell(path, i, k) == path[i] = "downsell_" \o ToString(k) \o ".html"

\* downsell pages are opened only by declining the upsell of the same index
downsells_follow_declines ==
    \A i \in 1..Len(visit.path), k \in 1..(MaxOffers + 2) :
        shows_downsell(visit.path, i, k)
        => /\ i > 1
           /\ visit.path[i - 1] = "upsell_" \o ToString(k) \o ".html"
           /\ visit.clicks[i - 1] = "decline"
           /\ k <= visit.upsells

\* the pages a visitor sees who accepts at every step of a funnel of U upsells
accept_path(U) ==
    <<"index.html">> \o [i \in 1..U |-> "upsell_" \o ToString(i) \o ".html"] \o <<"thank_you.html">>

\* C29: in every walk from main, downsell_i is shown only directly after
\* upsell_i and only by its decline, and downsell pages of index greater than U
\* are never shown; a visitor who accepts at every step sees exactly main,
\* upsell_1..upsell_U, thank_you in that order.
C29_DownsellOnlyAfterDecline ==
    (visit.phase # "none")
    => /\ downsells_follow_declines
       /\ (\A c \in 1..Len(visit.clicks) : visit.clicks[c] = "accept")
             => /\ visit.phase # "lost"
                /\ Len(visit.path) <= visit.upsells + 2
                /\ visit.path = SubSeq(accept_path(visit.upsells), 1, Len(visit.path))
                /\ visit.phase = "left" => visit.path = accept_path(visit.upsells)

\* C30: every EmailSequence generate_email_sequence returns, built from the
\* service's answer or the fallback, contains an 'emails' list and has
\* num_emails equal to the length of that list.
C30_NumEmailsCountsEmails ==
    (last.op = "generate_email_sequence" /\ last.raised = "")
    => /\ "emails" \in DOMAIN last.ret.v
       /\ last.ret.v.emails.t = "list"
       /\ last.ret.v.num_emails = PyInt(Len(last.ret.v.emails.v))

====
